---- MODULE Spec2Model ----
(***************************************************************************)
(* Route choice set generation (BFS-LE and link penalisation), path-size   *)
(* logit results and link loading of aequilibrae's RouteChoiceSet.         *)
(*                                                                         *)
(* Compact link ids and vector indices are 0-based in the source and       *)
(* 1-based here (TLA+ sequences); nothing else is shifted.                 *)
(***************************************************************************)
EXTENDS Integers, Sequences, FiniteSets, TLC

(***************************************************************************)
(* Bounds of the explored inputs.                                          *)
(***************************************************************************)
MaxRoutes == 3
MaxDepth == 3
MaxMisses == 1
MaxCalls == 2
MaxThreads == 2
ProbUnits == 2

(***************************************************************************)
(* Program constants.  UINT_MAX is 2^32 - 1 in the source; it only serves   *)
(* as "no limit" and is held at the largest integer the checker has.       *)
(* INFINITY is the cost of a banned link.                                  *)
(***************************************************************************)
UINT_MAX == 2147483647
INFINITY == 1000000
Base == 2
MinstdA == 48271
MinstdM == 2147483647

(***************************************************************************)
(* The compact graph held by RouteChoiceSet.__init__: link l runs from     *)
(* a_node[l] to b_nodes_view[l] at cost cost_view[l].  Two parallel links  *)
(* 0 -> 1, two parallel links 1 -> 2, one direct link 0 -> 2, and node 3   *)
(* which no link touches.                                                  *)
(***************************************************************************)
a_node == <<0, 0, 1, 1, 0>>
b_nodes_view == <<1, 1, 2, 2, 2>>
cost_view == <<1, 2, 1, 2, 3>>
Links == 1..Len(cost_view)
Nodes == 0..3
Penalties == {1, 2}

VARIABLES
    par,                  \* arguments of the running enumeration
    pc,                   \* position of the enumeration
    route_set,            \* RouteSet_t, in insertion order
    removed_links,        \* LinkSet_t of banned-link sets already searched
    queue, next_queue,    \* banned-link sets of this depth and of the next
    qi,                   \* position of `for banned in queue`
    depth, miss_count,
    thread_cost,          \* the thread's cost scratch
    penalised_cost, next_penalised_cost,
    unreachable,          \* the last path search did not reach the destination
    search_log,           \* history: the banned set of every path search
    dup_log,              \* history: for every route found, whether the insert missed
    mem,                  \* history: the route vectors and banned-link sets allocated
    det,                  \* the seed, the state of rng and the tie rule of the path finder
    run_no, first_run,    \* which of two equal runs is going, and what the first returned
    \* -- RouteChoiceSet object and the batched call in progress
    phase,                \* "idle" between calls, "running" inside the parallel region
    call,                 \* number of batched calls made
    bpar,                 \* arguments of the batched call in progress
    raised,               \* what the last batched call raised, "none" if nothing
    results, ll_results,  \* self.results, self.ll_results
    od_done, cur_od,      \* OD indices finished, OD index being enumerated
    n_searches,           \* history: path searches of the call in progress
    warned,               \* the warnings emitted since the last call of batched began
    dataset,              \* the tables written to the dataset at the path `where`
    ret,                  \* history: the accessor called last since batched began, and its outcome
    \* -- LinkLoadingResults
    ll_args,              \* what the object was built from and the inputs of the loading
    ll_pc,                \* "off", "loading", "reduced", "published"
    od_thread,            \* the thread that loaded each OD, 0 before
    link_loading_threaded, sl_link_loading_threaded, sl_od_matrix_threaded,
    link_loading, sl_link_loading, sl_od_matrix,
    od_matrix_objects,
    membership,           \* history: results of is_in_select_link_set
    \* -- RouteChoiceSetResults.compute_result for one OD
    psl_args,             \* the route set and the parameters of the assignment
    psl_pc,               \* "off", "start", "computed", "loaded", "crashed"
    cost_set, mask_set, path_overlap_set, prob_set,
    \* -- the parallel region of batched
    par_args,             \* ods, cores and flags of the call
    views,                \* views[0]: self.b_nodes_view, views[t]: b_nodes_matrix of thread t
    t_pc, t_i,            \* position and OD index of each thread
    t_route_set,          \* route_set of each thread
    taken,                \* OD indices handed out by prange
    iterations,           \* history: <<thread, i>> of every pass of the loop body
    block_log,            \* history: the actions of each thread's blocking calls
    search_views,         \* history: the graph view every path search ran on
    writes,               \* history: <<thread, array, index>> of every write to an array
    slots                 \* the route_vecs slots of self.results

enumVars == <<par, pc, route_set, removed_links, queue, next_queue, qi, depth,
              miss_count, thread_cost, penalised_cost, next_penalised_cost,
              unreachable, search_log, dup_log, mem, det, run_no, first_run>>

batchVars == <<phase, call, bpar, raised, results, ll_results, od_done, cur_od,
               n_searches, warned, dataset, ret>>

llVars == <<ll_args, ll_pc, od_thread, link_loading_threaded, sl_link_loading_threaded,
            sl_od_matrix_threaded, link_loading, sl_link_loading, sl_od_matrix,
            od_matrix_objects, membership>>

pslVars == <<psl_args, psl_pc, cost_set, mask_set, path_overlap_set, prob_set>>

parVars == <<par_args, views, t_pc, t_i, t_route_set, taken, iterations, block_log,
             search_views, writes, slots>>

vars == <<enumVars, batchVars, llVars, pslVars, parVars>>

\* no parallel region is being followed
ParBlank ==
    /\ par_args = <<>>
    /\ views = <<>>
    /\ t_pc = <<>>
    /\ t_i = <<>>
    /\ t_route_set = <<>>
    /\ taken = {}
    /\ iterations = <<>>
    /\ block_log = <<>>
    /\ search_views = {}
    /\ writes = {}
    /\ slots = <<>>

\* no assignment is being computed
PSLBlank ==
    /\ psl_args = <<>>
    /\ psl_pc = "off"
    /\ cost_set = <<>>
    /\ mask_set = <<>>
    /\ path_overlap_set = <<>>
    /\ prob_set = <<>>

\* no LinkLoadingResults is being driven
LLBlank ==
    /\ ll_args = <<>>
    /\ ll_pc = "off"
    /\ od_thread = <<>>
    /\ link_loading_threaded = <<>>
    /\ sl_link_loading_threaded = <<>>
    /\ sl_od_matrix_threaded = <<>>
    /\ link_loading = <<>>
    /\ sl_link_loading = <<>>
    /\ sl_od_matrix = <<>>
    /\ od_matrix_objects = <<>>
    /\ membership = {}

(***************************************************************************)
(* Helpers on sequences.                                                   *)
(***************************************************************************)
Range(s) == {s[k] : k \in DOMAIN s}

Reverse(s) == [k \in 1..Len(s) |-> s[Len(s) + 1 - k]]

RECURSIVE SumSeq(_)
SumSeq(s) == IF s = <<>> THEN 0 ELSE Head(s) + SumSeq(Tail(s))

(***************************************************************************)
(* Path finder.  Its code is not part of the sources at hand; it is        *)
(* modelled by its contract: a shortest path from origin to destination    *)
(* under the given cost vector, a link of infinite cost being unusable,    *)
(* and the destination unreached when no such path exists.  Ties are not   *)
(* resolved here: every shortest path is a possible answer.                *)
(***************************************************************************)
RECURSIVE PathsFrom(_, _, _)
PathsFrom(n, dest, visited) ==
    IF n = dest THEN {<<>>}
    ELSE UNION { { <<l>> \o p : p \in PathsFrom(b_nodes_view[l], dest,
                                               visited \cup {b_nodes_view[l]}) }
                 : l \in {k \in Links : a_node[k] = n /\ b_nodes_view[k] \notin visited} }

PathCost(p, cost) == SumSeq([k \in 1..Len(p) |-> cost[p[k]]])

UsablePaths(origin, dest, cost) ==
    {p \in PathsFrom(origin, dest, {origin}) : \A k \in 1..Len(p) : cost[p[k]] < INFINITY}

path_find(origin, dest, cost) ==
    {p \in UsablePaths(origin, dest, cost) :
        \A q \in UsablePaths(origin, dest, cost) : PathCost(p, cost) <= PathCost(q, cost)}

\* the walk of the predecessor tree from the destination: links in reverse travel order
PredecessorWalk(p) == Reverse(p)

(***************************************************************************)
(* Pieces of bfsle and link_penalisation.                                  *)
(***************************************************************************)
\* max_routes if max_routes != 0 else UINT_MAX (and the same for max_depth)
Limit(n) == IF n # 0 THEN n ELSE UINT_MAX

\* mutant: the route set counts as full one route too late
RouteSetFullLate(rs, max_routes) == Len(rs) > Limit(max_routes)

\* route_set.size() >= max_routes
RouteSetFull(rs, max_routes) == Len(rs) >= Limit(max_routes)

\* mutant: the miss limit counts as passed when it is only reached
MissLimitPassedEarly(mc, max_misses) == mc >= max_misses

\* miss_count > max_misses
MissLimitPassed(mc, max_misses) == mc > max_misses

\* mutant: a successful insert resets the miss count
CountMissConsecutive(mc, inserted) == IF inserted THEN 0 ELSE mc + 1

\* miss_count = miss_count + (not status.second)
CountMiss(mc, inserted) == mc + (IF inserted THEN 0 ELSE 1)

\* mutant: an insert that never compares the new route with the stored ones
RouteSetInsertAlways(rs, vec) == Append(rs, vec)

\* route_set.insert(vec): the set keeps one copy of equal link sequences
RouteSetInsert(rs, vec) == IF \E k \in 1..Len(rs) : rs[k] = vec THEN rs ELSE Append(rs, vec)

\* status.second of route_set.insert(vec)
Inserted(rs, vec) == Len(RouteSetInsert(rs, vec)) > Len(rs)

\* thread_cost for one banned set: the base (or penalised) costs, banned links at INFINITY
BannedCost(base, banned) == [l \in Links |-> IF l \in banned THEN INFINITY ELSE base[l]]

\* cost[connector] = penalty * cost[connector] for every connector of vec
Penalise(cost, vec, penalty) ==
    [l \in Links |-> IF l \in Range(vec) THEN penalty * cost[l] ELSE cost[l]]

\* removed_links.find(new_banned) != removed_links.end()
SeenBefore(removed, new_banned) == new_banned \in removed

\* the new banned sets of one route, in route order, that go to next_queue
RECURSIVE NewBanned(_, _, _)
NewBanned(vec, banned, removed) ==
    IF vec = <<>> THEN <<>>
    ELSE LET new_banned == banned \cup {Head(vec)}
             rest == NewBanned(Tail(vec), banned, removed)
         IN IF SeenBefore(removed, new_banned) THEN rest ELSE <<new_banned>> \o rest

\* mutant: the first search of bfsle has the first link banned
StartBannedFirstLink == {1}

\* queue.push_back(new unordered_set[long long]()): start with no edges banned
StartBanned == {}

\* mutant: the route is stored as the walk produced it
reverse_not(vec) == vec

\* reverse(vec.begin(), vec.end())
reverse(vec) == Reverse(vec)

\* mutant: the search starts from the costs that hold this depth's penalties too
SearchCostNext(penalised, next_penalised) == next_penalised

\* copy(penalised_cost.cbegin(), penalised_cost.cend(), &thread_cost[0])
SearchCost(penalised, next_penalised) == penalised

\* the queue in the order f
Permute(q, f) == [k \in 1..Len(q) |-> q[f[k]]]

(***************************************************************************)
(* rng and the ties of the path finder.  det.mode = "any" leaves both      *)
(* open: every permutation and every shortest path can come out.  With     *)
(* det.mode "low" or "high" the engine is followed from det.seed and the   *)
(* path finder settles ties by a fixed rule, as one build on one graph     *)
(* does.                                                                   *)
(***************************************************************************)
NoDet == [mode |-> "any", seed |-> 0, x |-> 1]

\* mutant: seeding leaves the engine where it was
SeedKeep(x, seed) == x

\* rng.seed(seed) of minstd_rand: the seed modulo m, 1 if that is 0
Seed(x, seed) == IF seed % MinstdM = 0 THEN 1 ELSE seed % MinstdM

\* one step of minstd_rand, x * a mod m, without leaving 32 bits
Draw(x) ==
    LET q == MinstdM \div MinstdA
        r == MinstdM % MinstdA
        y == MinstdA * (x % q) - r * (x \div q)
    IN IF y < 0 THEN y + MinstdM ELSE y

\* positions j and k exchanged
Swap(f, j, k) == [f EXCEPT ![j] = f[k], ![k] = f[j]]

\* shuffle of n elements from engine state x: position k, from the last down to the
\* second, is exchanged with a drawn position at or before it
RECURSIVE ShuffleFrom(_, _, _)
ShuffleFrom(f, x, k) ==
    IF k < 2 THEN [perm |-> f, x |-> x]
    ELSE LET y == Draw(x) IN ShuffleFrom(Swap(f, (y % k) + 1, k), y, k - 1)

\* the permutations shuffle(queue.begin(), queue.end(), rng) can leave
ShuffleChoices(d, n) ==
    IF d.mode = "any" THEN Permutations(1..n)
    ELSE {ShuffleFrom([k \in 1..n |-> k], d.x, n).perm}

\* the engine after the shuffle
AfterShuffle(d, n) ==
    IF d.mode = "any" THEN d
    ELSE [d EXCEPT !.x = ShuffleFrom([k \in 1..n |-> k], d.x, n).x]

\* a path as a number, links as digits
RECURSIVE PathKey(_)
PathKey(p) == IF p = <<>> THEN 0 ELSE PathKey(SubSeq(p, 1, Len(p) - 1)) * 10 + p[Len(p)]

\* the shortest paths the path finder can answer with
TieChoices(d, found) ==
    IF d.mode = "any" THEN found
    ELSE {p \in found : \A q \in found :
             IF d.mode = "low" THEN PathKey(p) <= PathKey(q) ELSE PathKey(p) >= PathKey(q)}

\* shuffle(queue.begin(), queue.end(), rng): some permutation of the queue
Shuffles(q) == { Permute(q, f) : f \in Permutations(1..Len(q)) }

(***************************************************************************)
(* The heap objects of one enumeration.  heap[id] is the object of the     *)
(* id-th `new`, with the number of times it was deleted; queue_ids,        *)
(* next_ids, removed_ids and route_ids are the pointers held by queue,     *)
(* next_queue, removed_links and route_set.                                *)
(***************************************************************************)
NoMem == [heap |-> <<>>, queue_ids |-> <<>>, next_ids |-> <<>>, removed_ids |-> {},
          route_ids |-> <<>>]

\* new vector[long long]() / new unordered_set[long long]()
New(kind) == [kind |-> kind, frees |-> 0]

\* del of every pointer of the sequence ids
RECURSIVE Delete(_, _)
Delete(heap, ids) ==
    IF ids = <<>> THEN heap
    ELSE Delete([heap EXCEPT ![Head(ids)].frees = @ + 1], Tail(ids))

\* the pointers of a set, in some order
RECURSIVE SeqOf(_)
SeqOf(ids) == IF ids = {} THEN <<>>
              ELSE LET id == CHOOSE x \in ids : TRUE IN <<id>> \o SeqOf(ids \ {id})

\* the positions of vec whose new_banned goes to next_queue
RECURSIVE Kept(_, _, _, _)
Kept(vec, banned, removed, k) ==
    IF k > Len(vec) THEN <<>>
    ELSE (IF SeenBefore(removed, banned \cup {vec[k]}) THEN <<>> ELSE <<k>>)
         \o Kept(vec, banned, removed, k + 1)

\* the heap after one path search of bfsle: banned_id goes to removed_links unless an
\* equal set is there, the route is allocated, one new_banned per link is allocated and
\* deleted if seen before, and the route is owned by route_set if the insert succeeded
SearchMem(m, banned_id, is_new, found, vec, banned, removed, inserted, ends) ==
    LET rem == IF is_new THEN m.removed_ids \cup {banned_id} ELSE m.removed_ids
        vec_id == Len(m.heap) + 1
        kept == Kept(vec, banned, removed, 1)
        heap == IF ~found THEN m.heap
                ELSE m.heap \o <<New("route")>>
                     \o [k \in 1..Len(vec) |->
                           IF \E n \in DOMAIN kept : kept[n] = k THEN New("banned")
                           ELSE [New("banned") EXCEPT !.frees = 1]]
        nxt == IF ~found THEN m.next_ids
               ELSE m.next_ids \o [n \in DOMAIN kept |-> vec_id + kept[n]]
    IN [heap |-> heap,
        queue_ids |-> IF ends THEN nxt ELSE m.queue_ids,
        next_ids |-> IF ends THEN <<>> ELSE nxt,
        removed_ids |-> rem,
        route_ids |-> IF found /\ inserted THEN Append(m.route_ids, vec_id) ELSE m.route_ids]

BaseCost == [l \in Links |-> cost_view[l]]

ParDomain ==
    { p \in [bfsle : BOOLEAN, max_routes : 0..MaxRoutes, max_depth : 0..MaxDepth,
             max_misses : 0..MaxMisses, penalty : Penalties,
             origin_index : Nodes, dest_index : Nodes] :
        /\ ~(p.max_routes = 0 /\ p.max_depth = 0)
        /\ p.origin_index # p.dest_index }

(***************************************************************************)
(* The values the enumeration's locals have outside bfsle and              *)
(* link_penalisation.                                                      *)
(***************************************************************************)
NoPar == [bfsle |-> TRUE, max_routes |-> 0, max_depth |-> 0, max_misses |-> 0,
          penalty |-> 1, origin_index |-> 0, dest_index |-> 0]

LocalsBlank ==
    /\ route_set = <<>>
    /\ removed_links = {}
    /\ queue = <<>>
    /\ next_queue = <<>>
    /\ qi = 1
    /\ depth = 0
    /\ miss_count = 0
    /\ thread_cost = BaseCost
    /\ penalised_cost = BaseCost
    /\ next_penalised_cost = BaseCost
    /\ unreachable = FALSE
    /\ search_log = <<>>
    /\ dup_log = <<>>
    /\ mem = NoMem
    /\ det = NoDet
    /\ run_no = 0
    /\ first_run = <<>>

lp == par.penalty # 1

(***************************************************************************)
(* Entry of bfsle / link_penalisation for one OD: the declarations and     *)
(* the statements before the depth loop.                                   *)
(***************************************************************************)
Enter ==
    /\ pc = "entry"
    /\ pc' = IF par.bfsle THEN "bfsle_depth" ELSE "lp_depth"
    /\ route_set' = <<>>
    /\ removed_links' = {}
    /\ queue' = IF par.bfsle THEN <<StartBanned>> ELSE <<>>
    /\ next_queue' = <<>>
    /\ qi' = 1
    /\ depth' = 0
    /\ miss_count' = 0
    /\ thread_cost' = BaseCost
    /\ penalised_cost' = BaseCost
    /\ next_penalised_cost' = BaseCost
    /\ unreachable' = FALSE
    /\ search_log' = <<>>
    /\ dup_log' = <<>>
    /\ mem' = IF par.bfsle
              THEN [NoMem EXCEPT !.heap = <<New("banned")>>, !.queue_ids = <<1>>]
              ELSE NoMem
    /\ det' = IF par.bfsle /\ det.mode # "any"
              THEN [det EXCEPT !.x = Seed(@, det.seed)] ELSE det
    /\ UNCHANGED <<par, run_no, first_run, batchVars, llVars, pslVars, parVars>>

(***************************************************************************)
(* bfsle: head of `for depth in range(max_depth)`.                         *)
(***************************************************************************)
BfsleDepth ==
    /\ pc = "bfsle_depth"
    /\ IF \/ depth >= Limit(par.max_depth)
          \/ MissLimitPassed(miss_count, par.max_misses)
          \/ RouteSetFull(route_set, par.max_routes)
          \/ Len(queue) = 0
       THEN \* the loop is left: the sets of queue and of removed_links are deleted
            /\ pc' = "done"
            /\ mem' = [mem EXCEPT !.heap = Delete(Delete(@, mem.queue_ids),
                                                  SeqOf(mem.removed_ids))]
            /\ UNCHANGED <<queue, det>>
       ELSE /\ pc' = "bfsle_queue"
            /\ IF Len(queue) + Len(route_set) >= Limit(par.max_routes)
               THEN \E f \in ShuffleChoices(det, Len(queue)) :
                       /\ queue' = Permute(queue, f)
                       /\ mem' = [mem EXCEPT !.queue_ids = Permute(@, f)]
                       /\ det' = AfterShuffle(det, Len(queue))
               ELSE UNCHANGED <<queue, mem, det>>
    /\ qi' = 1
    /\ UNCHANGED <<llVars, pslVars, parVars, par, route_set, removed_links, next_queue, depth, miss_count,
                   thread_cost, penalised_cost, next_penalised_cost, unreachable,
                   search_log, dup_log, run_no, first_run, batchVars>>

\* the end of one depth: queue.swap(next_queue); next_queue.clear(); copy of the penalties
BfsleEndDepth(nq, npc) ==
    /\ queue' = nq
    /\ next_queue' = <<>>
    /\ penalised_cost' = IF lp THEN npc ELSE penalised_cost
    /\ depth' = depth + 1
    /\ qi' = 1
    /\ pc' = "bfsle_depth"

(***************************************************************************)
(* bfsle: one pass of `for banned in queue`, up to the break or the end    *)
(* of the queue, where the depth ends.                                     *)
(***************************************************************************)
BfsleSearch ==
    /\ pc = "bfsle_queue"
    /\ LET banned == queue[qi]
           cost == BannedCost(IF lp THEN SearchCost(penalised_cost, next_penalised_cost)
                                    ELSE BaseCost, banned)
           found == path_find(par.origin_index, par.dest_index, cost)
           removed == removed_links \cup {banned}
       IN /\ thread_cost' = cost
          /\ search_log' = Append(search_log, banned)
          /\ removed_links' = removed
          /\ IF found = {}
             THEN /\ unreachable' = TRUE
                  /\ mem' = SearchMem(mem, mem.queue_ids[qi], banned \notin removed_links,
                                      FALSE, <<>>, banned, removed, FALSE, qi = Len(queue))
                  /\ UNCHANGED <<route_set, miss_count, next_penalised_cost, dup_log>>
                  /\ IF qi = Len(queue)
                     THEN BfsleEndDepth(next_queue, next_penalised_cost)
                     ELSE /\ qi' = qi + 1
                          /\ UNCHANGED <<queue, next_queue, penalised_cost, depth, pc>>
             ELSE \E p \in TieChoices(det, found) :
                  LET walk == PredecessorWalk(p)
                      npc == IF lp THEN Penalise(next_penalised_cost, walk, par.penalty)
                                   ELSE next_penalised_cost
                      vec == reverse(walk)
                      nq == next_queue \o NewBanned(vec, banned, removed)
                      rs == RouteSetInsert(route_set, vec)
                      mc == CountMiss(miss_count, Inserted(route_set, vec))
                      ends == \/ MissLimitPassed(mc, par.max_misses)
                              \/ RouteSetFull(rs, par.max_routes)
                              \/ qi = Len(queue)
                  IN /\ unreachable' = FALSE
                     /\ next_penalised_cost' = npc
                     /\ route_set' = rs
                     /\ miss_count' = mc
                     /\ dup_log' = Append(dup_log, ~Inserted(route_set, vec))
                     /\ mem' = SearchMem(mem, mem.queue_ids[qi], banned \notin removed_links,
                                         TRUE, vec, banned, removed,
                                         Inserted(route_set, vec), ends)
                     /\ IF \/ MissLimitPassed(mc, par.max_misses)
                           \/ RouteSetFull(rs, par.max_routes)
                           \/ qi = Len(queue)
                        THEN BfsleEndDepth(nq, npc)
                        ELSE /\ qi' = qi + 1
                             /\ next_queue' = nq
                             /\ UNCHANGED <<queue, penalised_cost, depth, pc>>
    /\ UNCHANGED <<par, det, run_no, first_run, batchVars, llVars, pslVars, parVars>>

(***************************************************************************)
(* link_penalisation: one iteration of `for depth in range(max_depth)`.    *)
(***************************************************************************)
LpIteration ==
    /\ pc = "lp_depth"
    /\ IF depth >= Limit(par.max_depth) \/ RouteSetFull(route_set, par.max_routes)
       THEN /\ pc' = "done"
            /\ UNCHANGED <<route_set, depth, miss_count, thread_cost, unreachable,
                           search_log, dup_log, mem>>
       ELSE LET found == path_find(par.origin_index, par.dest_index, thread_cost)
            IN /\ search_log' = Append(search_log, {})
               /\ IF found = {}
                  THEN /\ unreachable' = TRUE
                       /\ pc' = "done"
                       /\ UNCHANGED <<route_set, depth, miss_count, thread_cost, dup_log,
                                      mem>>
                  ELSE \E p \in TieChoices(det, found) :
                       LET walk == PredecessorWalk(p)
                           vec == reverse(walk)
                           mc == CountMiss(miss_count, Inserted(route_set, vec))
                       IN /\ unreachable' = FALSE
                          /\ dup_log' = Append(dup_log, ~Inserted(route_set, vec))
                          /\ mem' = [mem EXCEPT
                                       !.heap = Append(@, New("route")),
                                       !.route_ids = IF Inserted(route_set, vec)
                                                     THEN Append(@, Len(mem.heap) + 1)
                                                     ELSE @]
                          /\ thread_cost' = Penalise(thread_cost, walk, par.penalty)
                          /\ route_set' = RouteSetInsert(route_set, vec)
                          /\ miss_count' = mc
                          /\ IF MissLimitPassed(mc, par.max_misses)
                             THEN pc' = "done" /\ UNCHANGED depth
                             ELSE pc' = "lp_depth" /\ depth' = depth + 1
    /\ UNCHANGED <<llVars, pslVars, parVars, par, det, run_no, first_run, removed_links, queue,
                   next_queue, qi, penalised_cost,
                   next_penalised_cost, batchVars>>

(***************************************************************************)
(* The RouteChoiceSet object outside batched.                              *)
(***************************************************************************)
NoArgs == [max_routes |-> 0, max_depth |-> 0, max_misses |-> 0, bfsle |-> TRUE,
           penalty |-> 1, store_results |-> TRUE, path_size_logit |-> FALSE,
           beta |-> 1, cutoff_prob |-> 0, demand |-> <<>>,
           eager_link_loading |-> FALSE, where |-> "None"]

\* self.results and self.ll_results before any batched call returned normally
None == [call |-> 0, route_vecs |-> <<>>, store_results |-> TRUE, table |-> <<>>]

\* self.ll_results before any batched call built a LinkLoadingResults
NoneLL == [call |-> 0, loaded |-> {}, link_loading |-> <<>>, objects |-> {}]

\* no accessor called yet
NoCall == [fn |-> "none", out |-> "none", ods |-> {}]

ObjectFresh ==
    /\ phase = "idle"
    /\ call = 0
    /\ bpar = NoArgs
    /\ raised = "none"
    /\ results = None
    /\ ll_results = NoneLL
    /\ od_done = {}
    /\ cur_od = 0
    /\ n_searches = 0
    /\ warned = {}
    /\ dataset = <<>>
    /\ ret = NoCall

(***************************************************************************)
(* Specification of one enumeration: bfsle or link_penalisation entered    *)
(* with arguments batched accepts, for one OD with distinct indices.       *)
(***************************************************************************)
Init ==
    /\ par \in ParDomain
    /\ pc = "entry"
    /\ LocalsBlank
    /\ ObjectFresh
    /\ LLBlank
    /\ PSLBlank
    /\ ParBlank

Next == Enter \/ BfsleDepth \/ BfsleSearch \/ LpIteration

Spec == Init /\ [][Next]_vars

\* one thread runs the enumeration: it takes its next step whenever there is one
SpecLive == Spec /\ WF_vars(Next)

(***************************************************************************)
(* batched.  Node ids of the network are mapped to compact node indices    *)
(* by nodes_to_indices_view, -1 for a node the compact graph lacks.        *)
(***************************************************************************)
ExternalNodes == 10..14

nodes_to_indices_view == [n \in ExternalNodes |-> IF n - 10 \in Nodes THEN n - 10 ELSE -1]

\* demand.df.index of the calls explored: lists of (origin, destination)
DemandTables ==
    { << <<10, 12>> >>, << <<10, 12>>, <<11, 12>> >>, << <<12, 12>> >>,
      << <<14, 12>> >>, << <<10, 14>> >>, << <<10, 12>>, <<10, 12>> >> }

\* the calls explored for the argument checks: eager_link_loading and where at
\* their defaults
BatchArgs ==
    [max_routes : -1..1, max_depth : -1..1, max_misses : {0}, bfsle : BOOLEAN,
     penalty : Penalties, store_results : BOOLEAN, path_size_logit : BOOLEAN,
     beta : {-1, 1}, cutoff_prob : {-1, 0, 2}, demand : DemandTables,
     eager_link_loading : {FALSE}, where : {"None"}]

\* the calls explored for the results: every combination of store_results,
\* path_size_logit, eager_link_loading and where
ResultArgs ==
    [max_routes : {0, 1}, max_depth : {0, 1}, max_misses : {0}, bfsle : BOOLEAN,
     penalty : {1}, store_results : BOOLEAN, path_size_logit : BOOLEAN,
     beta : {1}, cutoff_prob : {0}, demand : DemandTables,
     eager_link_loading : BOOLEAN, where : {"None", "path"}]

\* the first node of demand.df.index that the compact graph lacks, as the loop meets it
RECURSIVE AbsentNode(_)
AbsentNode(ods) ==
    IF ods = <<>> THEN "ok"
    ELSE IF nodes_to_indices_view[Head(ods)[1]] = -1 THEN "ValueError: origin not present"
    ELSE IF nodes_to_indices_view[Head(ods)[2]] = -1 THEN "ValueError: destination not present"
    ELSE AbsentNode(Tail(ods))

\* mutant: the sign of max_routes and max_depth is not tested
ValidateNoSign(p) ==
    IF p.max_routes = 0 /\ p.max_depth = 0 THEN "ValueError: max_routes or max_depth must be > 0"
    ELSE IF p.path_size_logit /\ p.beta < 0 THEN "ValueError: beta must be >= 0"
    ELSE IF p.path_size_logit /\ ~(0 <= p.cutoff_prob /\ p.cutoff_prob <= 1)
         THEN "ValueError: cutoff_prob must be in [0, 1]"
    ELSE AbsentNode(p.demand)

\* the argument checks of batched, in their order; "ok" when none raises
Validate(p) ==
    IF p.max_routes = 0 /\ p.max_depth = 0 THEN "ValueError: max_routes or max_depth must be > 0"
    ELSE IF p.max_routes < 0 \/ p.max_depth < 0 THEN "ValueError: must be non-negative"
    ELSE IF p.path_size_logit /\ p.beta < 0 THEN "ValueError: beta must be >= 0"
    ELSE IF p.path_size_logit /\ ~(0 <= p.cutoff_prob /\ p.cutoff_prob <= 1)
         THEN "ValueError: cutoff_prob must be in [0, 1]"
    ELSE AbsentNode(p.demand)

\* RouteChoiceSetResults.__init__ raises before self.results is assigned
ResultsInit(p) ==
    IF ~p.store_results /\ ~p.path_size_logit
    THEN "ValueError: store_results or perform_assignment must be True"
    ELSE "ok"

\* a call of batched binds its arguments
Batched(p) ==
    /\ phase = "idle"
    /\ call < MaxCalls
    /\ call' = call + 1
    /\ phase' = "validating"
    /\ bpar' = p
    /\ raised' = "none"
    /\ warned' = {}
    /\ ret' = NoCall
    /\ UNCHANGED <<llVars, pslVars, parVars, results, ll_results, od_done, cur_od, n_searches,
                   dataset, enumVars>>

\* batched from its first statement to the start of the parallel region, or to the raise
BatchedValidate ==
    /\ phase = "validating"
    /\ IF Validate(bpar) # "ok"
       THEN /\ raised' = Validate(bpar)
            /\ phase' = "idle"
            /\ bpar' = NoArgs
            /\ UNCHANGED <<results, ll_results>>
       ELSE IF ResultsInit(bpar) # "ok"
       THEN /\ raised' = ResultsInit(bpar)
            /\ phase' = "idle"
            /\ bpar' = NoArgs
            /\ UNCHANGED <<results, ll_results>>
       ELSE /\ phase' = "running"
            /\ results' = [call |-> call, route_vecs |-> [i \in DOMAIN bpar.demand |-> <<>>],
                            store_results |-> bpar.store_results, table |-> <<>>]
            /\ ll_results' = [call |-> call, loaded |-> {}, link_loading |-> <<>>,
                               objects |-> {}]
            /\ UNCHANGED <<raised, bpar>>
    /\ UNCHANGED <<llVars, pslVars, parVars, call, od_done, cur_od, n_searches, warned,
                   dataset, ret, enumVars>>

\* mutant: an OD with equal indices is enumerated like any other
SkipNever(origin_index, dest_index) == FALSE

\* if origin_index == dest_index: continue
Skip(origin_index, dest_index) == origin_index = dest_index

\* the parallel region takes the next OD index; equal indices are skipped
StartOD(i) ==
    /\ phase = "running"
    /\ pc = "idle"
    /\ i \in DOMAIN bpar.demand
    /\ i \notin od_done
    /\ LET origin_index == nodes_to_indices_view[bpar.demand[i][1]]
           dest_index == nodes_to_indices_view[bpar.demand[i][2]]
       IN IF Skip(origin_index, dest_index)
          THEN /\ od_done' = od_done \cup {i}
               /\ UNCHANGED <<par, pc, cur_od>>
          ELSE /\ par' = [bfsle |-> bpar.bfsle, max_routes |-> bpar.max_routes,
                          max_depth |-> bpar.max_depth, max_misses |-> bpar.max_misses,
                          penalty |-> bpar.penalty, origin_index |-> origin_index,
                          dest_index |-> dest_index]
               /\ pc' = "entry"
               /\ cur_od' = i
               /\ UNCHANGED od_done
    /\ UNCHANGED <<llVars, pslVars, parVars, route_set, removed_links, queue, next_queue, qi, depth, miss_count,
                   thread_cost, penalised_cost, next_penalised_cost, unreachable,
                   search_log, dup_log, mem, det, run_no, first_run, phase, call, bpar, raised,
                   results,
                   ll_results, n_searches, warned, dataset, ret>>

\* the probability vector compute_result hands back for a route set of n routes:
\* its length, or -1 for the null pointer returned when no assignment is performed
ProbVecLen(p, n) == IF p.path_size_logit THEN n ELSE -1

\* get_route_vec, route_set_to_route_vec and route_set.clear() after the enumeration,
\* then compute_result and, with eager_link_loading, the two link loading calls.
\* Loading the routes with a null probability vector reads through the null pointer.
FinishOD ==
    /\ phase = "running"
    /\ pc = "done"
    /\ results' = IF bpar.store_results
                  THEN [results EXCEPT !.route_vecs[cur_od] = route_set]
                  ELSE results
    /\ LET prob_vec == ProbVecLen(bpar, Len(route_set))
           null_read == bpar.eager_link_loading /\ prob_vec = -1 /\ route_set # <<>>
       IN \E read \in IF null_read THEN {"fault", "value"} ELSE {"none"} :
             /\ phase' = IF read = "fault" THEN "crashed" ELSE phase
             /\ ll_results' =
                    IF bpar.eager_link_loading
                    THEN [ll_results EXCEPT !.loaded = @ \cup
                             {[od |-> cur_od, routes |-> Len(route_set), probs |-> prob_vec]}]
                    ELSE ll_results
    /\ od_done' = od_done \cup {cur_od}
    /\ n_searches' = n_searches + Len(search_log)
    /\ cur_od' = 0
    /\ par' = NoPar
    /\ pc' = "idle"
    /\ route_set' = <<>>
    /\ removed_links' = {}
    /\ queue' = <<>>
    /\ next_queue' = <<>>
    /\ qi' = 1
    /\ depth' = 0
    /\ miss_count' = 0
    /\ thread_cost' = BaseCost
    /\ penalised_cost' = BaseCost
    /\ next_penalised_cost' = BaseCost
    /\ unreachable' = FALSE
    /\ search_log' = <<>>
    /\ dup_log' = <<>>
    /\ mem' = NoMem
    /\ UNCHANGED <<llVars, pslVars, parVars, det, run_no, first_run, call, bpar, raised,
                   warned, dataset, ret>>

\* the names of the accessors of the link loading results
LLAccessors == {"get_link_loading", "get_sl_link_loading", "get_sl_od_matrices"}

Accessors == {"get_results"} \cup LLAccessors

\* make_table_from_results: the cached table, or the table built from the stored
\* route sets, which store_results = False leaves out
make_table_from_results(r) ==
    IF r.table # <<>> THEN [out |-> "table", table |-> r.table]
    ELSE IF ~r.store_results
         THEN [out |-> "RuntimeError: table construction requires store_results",
               table |-> <<>>]
    ELSE [out |-> "table", table |-> <<r.route_vecs>>]

\* the three reductions: the sum of the loads of every thread, that is of every OD loaded
reduce_all(ll) == [ll EXCEPT !.link_loading = <<{e.od : e \in ll.loaded}>>]

\* the end of batched: get_results() builds the table; with eager_link_loading the
\* link loads are then reduced and turned into objects.  The argument where is not
\* used.  An exception of get_results() ends the call there.
BatchedReturn ==
    /\ phase = "running"
    /\ pc = "idle"
    /\ od_done = DOMAIN bpar.demand
    /\ LET t == make_table_from_results(results)
       IN /\ raised' = IF t.out = "table" THEN "none" ELSE t.out
          /\ results' = [results EXCEPT !.table = t.table]
          /\ ll_results' = IF t.out = "table" /\ bpar.eager_link_loading
                           THEN [reduce_all(ll_results) EXCEPT !.objects = LLAccessors]
                           ELSE ll_results
    /\ phase' = "idle"
    /\ bpar' = NoArgs
    /\ od_done' = {}
    /\ n_searches' = 0
    /\ UNCHANGED <<llVars, pslVars, parVars, call, cur_od, warned, dataset, ret, enumVars>>

\* get_results, get_link_loading, get_sl_link_loading, get_sl_od_matrices called
\* between two calls of batched.  The objects of link loads that were never reduced
\* are built from empty vectors: an empty dict.
Get(fn) ==
    /\ phase = "idle"
    /\ IF fn = "get_results"
       THEN IF results = None
            THEN /\ ret' = [fn |-> fn, ods |-> {},
                            out |-> "RuntimeError: Route Choice results not computed yet"]
                 /\ UNCHANGED results
            ELSE LET t == make_table_from_results(results)
                 IN /\ ret' = [fn |-> fn, out |-> t.out,
                               ods |-> IF t.out = "table" THEN DOMAIN t.table[1] ELSE {}]
                    /\ results' = [results EXCEPT !.table = t.table]
       ELSE /\ ret' = IF ll_results = NoneLL
                      THEN [fn |-> fn, ods |-> {},
                            out |-> "RuntimeError: Link loading results not computed yet"]
                      ELSE IF ll_results.link_loading = <<>>
                      THEN [fn |-> fn, ods |-> {}, out |-> "empty dict"]
                      ELSE [fn |-> fn, ods |-> ll_results.link_loading[1], out |-> "objects"]
            /\ UNCHANGED results
    /\ ll_results' = IF fn \in LLAccessors /\ ll_results # NoneLL
                     THEN [ll_results EXCEPT !.objects = @ \cup {fn}]
                     ELSE ll_results
    /\ UNCHANGED <<llVars, pslVars, parVars, phase, call, bpar, raised, od_done, cur_od,
                   n_searches, warned, dataset, enumVars>>

InitBatch ==
    /\ par = NoPar
    /\ pc = "idle"
    /\ LocalsBlank
    /\ ObjectFresh
    /\ LLBlank
    /\ PSLBlank
    /\ ParBlank

NextBatch ==
    \/ \E p \in BatchArgs : Batched(p)
    \/ BatchedValidate
    \/ \E i \in 1..2 : StartOD(i)
    \/ Enter \/ BfsleDepth \/ BfsleSearch \/ LpIteration
    \/ FinishOD
    \/ BatchedReturn

SpecBatch == InitBatch /\ [][NextBatch]_vars

\* calls of batched and of the accessors of its results, in any order
NextResults ==
    \/ \E p \in ResultArgs : Batched(p)
    \/ BatchedValidate
    \/ \E i \in 1..2 : StartOD(i)
    \/ Enter \/ BfsleDepth \/ BfsleSearch \/ LpIteration
    \/ FinishOD
    \/ BatchedReturn
    \/ \E fn \in Accessors : Get(fn)

SpecResults == InitBatch /\ [][NextResults]_vars

(***************************************************************************)
(* LinkLoadingResults, driven as batched drives it with eager link         *)
(* loading: every OD is loaded by one thread, then the per-thread results  *)
(* are reduced and turned into objects.  Loads are exact: a probability is *)
(* a number of units of 1/ProbUnits, a demand is an integer.               *)
(***************************************************************************)
Types == {"f64", "f32"}

\* demand.ods
ods == << <<10, 12>>, <<11, 12>> >>

\* the route_vec of each OD: simple paths of the graph above
route_vecs == << << <<1, 3>>, <<5>> >>, << <<3>>, <<4>> >> >>

\* the probability vectors compute_prob can return for a route set of n routes
ProbVecs(n) == {p \in [1..n -> 0..ProbUnits] : SumSeq(p) = ProbUnits}

\* demand.f64 / demand.f32 with their names: the demand tables explored
DemandColumns ==
    { [f64 |-> << [name |-> "a", values |-> <<2, 3>>] >>, f32 |-> <<>>],
      [f64 |-> <<>>, f32 |-> << [name |-> "b", values |-> <<1, 2>>] >>],
      [f64 |-> << [name |-> "a", values |-> <<2, 0>>] >>,
       f32 |-> << [name |-> "b", values |-> <<1, 2>>] >>] }

\* select_links, in the order of the dict; an OR set is a list of AND sets
SelectLinks ==
    { << [name |-> "q1", or_set |-> << {1} >>] >>,
      << [name |-> "q1", or_set |-> << {5} >>] >>,
      << [name |-> "q1", or_set |-> << {1, 3} >>], [name |-> "q2", or_set |-> << {5} >>] >>,
      << [name |-> "q1", or_set |-> << {1, 5} >>] >>,
      << [name |-> "q1", or_set |-> << {1, 5}, {3} >>] >>,
      << [name |-> "q1", or_set |-> << {} >>] >>,
      << [name |-> "q1", or_set |-> << {3} >>], [name |-> "q2", or_set |-> << {5} >>],
         [name |-> "q3", or_set |-> << {1} >>] >> }

\* select_link_set_lengths of one OR set
Lengths(or_set) == [k \in DOMAIN or_set |-> Cardinality(or_set[k])]

\* what a read of prob_vec past its end can give
Garbage == 0..ProbUnits

ZeroLinks == [l \in Links |-> 0]

\* for link in route: ll[link] = ll[link] + load
RECURSIVE AddLoad(_, _, _)
AddLoad(ll, route, load) ==
    IF route = <<>> THEN ll
    ELSE AddLoad([ll EXCEPT ![Head(route)] = @ + load], Tail(route), load)

\* the loop over the routes of link_load_single_route_set, from route j on
RECURSIVE LoadRoutes(_, _, _, _, _)
LoadRoutes(ll, route_set_, prob_vec, demand, j) ==
    IF j > Len(route_set_) THEN ll
    ELSE LET load == prob_vec[j] * demand
         IN LoadRoutes(IF load = 0 THEN ll ELSE AddLoad(ll, route_set_[j], load),
                       route_set_, prob_vec, demand, j + 1)

\* link_load_single_route_set on the columns of one type of one thread
link_load_single_route_set(ll_cols, columns, od_idx, route_set_, prob_vec) ==
    [k \in DOMAIN columns |->
        LoadRoutes(ll_cols[k], route_set_, prob_vec, columns[k].values[od_idx], 1)]

\* the count down of one AND set along the route
RECURSIVE CountDown(_, _, _)
CountDown(route, and_set, count) ==
    IF route = <<>> THEN FALSE
    ELSE IF Head(route) \in and_set
         THEN IF count - 1 = 0 THEN TRUE
              ELSE CountDown(Tail(route), and_set, count - 1)
         ELSE CountDown(Tail(route), and_set, count)

\* mutant: the route qualifies as soon as it holds one link of an AND set
is_in_select_link_set_any(route, select_link_set, select_link_set_lengths) ==
    \E i \in DOMAIN select_link_set : select_link_set[i] \cap Range(route) # {}

is_in_select_link_set(route, select_link_set, select_link_set_lengths) ==
    \E i \in DOMAIN select_link_set :
        CountDown(route, select_link_set[i], select_link_set_lengths[i])

\* prob_vec[i] of sl_link_load_single_route_set; g is what a read past the end gives
ProbAt(prob_vec, i, g) == IF i \in DOMAIN prob_vec THEN prob_vec[i] ELSE g

\* the loop over the routes of sl_link_load_single_route_set for select link set i
\* and one column, from route j on; acc holds the link loads and the COO entries
RECURSIVE SlLoadRoutes(_, _, _, _, _, _, _)
SlLoadRoutes(acc, or_set, route_set_, prob_i, demand, od, j) ==
    IF j > Len(route_set_) THEN acc
    ELSE LET load == prob_i * demand
             hit == is_in_select_link_set(route_set_[j], or_set, Lengths(or_set))
         IN SlLoadRoutes(IF hit /\ load # 0
                         THEN [ll |-> AddLoad(acc.ll, route_set_[j], load),
                               coo |-> Append(acc.coo, <<od[1], od[2], load>>)]
                         ELSE acc,
                         or_set, route_set_, prob_i, demand, od, j + 1)

\* sl_link_load_single_route_set on the select link sets and columns of one type of
\* one thread: the new link loads and COO buffers
sl_link_load_single_route_set(sl_ll, sl_od, select_links, columns, od_idx, route_set_, prob_vec, g) ==
    [i \in DOMAIN select_links |->
        [k \in DOMAIN columns |->
            SlLoadRoutes([ll |-> sl_ll[i][k], coo |-> sl_od[i][k]], select_links[i].or_set,
                         route_set_, ProbAt(prob_vec, i, g), columns[k].values[od_idx],
                         ods[od_idx], 1)]]

\* LinkLoadingResults.__cinit__, for the inputs a
LLInit(a) ==
    /\ ll_args = a
    /\ ll_pc = "loading"
    /\ od_thread = [i \in DOMAIN ods |-> 0]
    /\ link_loading_threaded =
           [ty \in Types |-> [t \in 1..a.threads |-> [k \in DOMAIN a.demand[ty] |-> ZeroLinks]]]
    /\ sl_link_loading_threaded =
           [ty \in Types |-> [t \in 1..a.threads |->
               [i \in DOMAIN a.select_links |-> [k \in DOMAIN a.demand[ty] |-> ZeroLinks]]]]
    /\ sl_od_matrix_threaded =
           [ty \in Types |-> [t \in 1..a.threads |->
               [i \in DOMAIN a.select_links |-> [k \in DOMAIN a.demand[ty] |-> <<>>]]]]
    /\ link_loading = <<>>
    /\ sl_link_loading = <<>>
    /\ sl_od_matrix = <<>>
    /\ od_matrix_objects = <<>>
    /\ membership = {}

LLArgs ==
    [select_links : SelectLinks, demand : DemandColumns, threads : 1..MaxThreads,
     prob : {p \in [DOMAIN ods -> UNION {ProbVecs(n) : n \in 1..2}] :
                \A i \in DOMAIN ods : Len(p[i]) = Len(route_vecs[i])}]

\* thread t loads OD od_idx: link_load_single_route_set, then sl_link_load_single_route_set
LoadOD(t, od_idx) ==
    /\ ll_pc = "loading"
    /\ t \in 1..ll_args.threads
    /\ od_thread[od_idx] = 0
    /\ od_thread' = [od_thread EXCEPT ![od_idx] = t]
    /\ LET rs == route_vecs[od_idx]
           pv == ll_args.prob[od_idx]
       IN /\ link_loading_threaded' =
                 [ty \in Types |->
                     [link_loading_threaded[ty] EXCEPT ![t] =
                         link_load_single_route_set(@, ll_args.demand[ty], od_idx, rs, pv)]]
          /\ \E g \in Garbage :
                LET new == [ty \in Types |->
                               sl_link_load_single_route_set(
                                   sl_link_loading_threaded[ty][t], sl_od_matrix_threaded[ty][t],
                                   ll_args.select_links, ll_args.demand[ty], od_idx, rs, pv, g)]
                IN /\ sl_link_loading_threaded' =
                          [ty \in Types |->
                              [sl_link_loading_threaded[ty] EXCEPT ![t] =
                                  [i \in DOMAIN new[ty] |->
                                      [k \in DOMAIN new[ty][i] |-> new[ty][i][k].ll]]]]
                   /\ sl_od_matrix_threaded' =
                          [ty \in Types |->
                              [sl_od_matrix_threaded[ty] EXCEPT ![t] =
                                  [i \in DOMAIN new[ty] |->
                                      [k \in DOMAIN new[ty][i] |-> new[ty][i][k].coo]]]]
          /\ membership' = membership \cup
                 { [od |-> od_idx, i |-> i, j |-> j,
                    hit |-> is_in_select_link_set(rs[j], ll_args.select_links[i].or_set,
                                                  Lengths(ll_args.select_links[i].or_set))] :
                   i \in DOMAIN ll_args.select_links, j \in DOMAIN rs }
    /\ UNCHANGED <<ll_args, ll_pc, link_loading, sl_link_loading, sl_od_matrix,
                   od_matrix_objects, enumVars, batchVars, pslVars, parVars>>

\* concatenation of the sequences of a sequence
RECURSIVE Concat(_)
Concat(ss) == IF ss = <<>> THEN <<>> ELSE Head(ss) \o Concat(Tail(ss))

\* mutant: only the first thread's loads reach the result
reduce_link_loading_first(threaded, columns) ==
    [k \in DOMAIN columns |-> [l \in Links |-> threaded[1][k][l]]]

\* reduce_link_loading on one type: the sum over the threads, per column and link
reduce_link_loading(threaded, columns) ==
    [k \in DOMAIN columns |->
        [l \in Links |-> SumSeq([t \in DOMAIN threaded |-> threaded[t][k][l]])]]

\* reduce_sl_link_loading on one type
reduce_sl_link_loading(threaded, select_links, columns) ==
    [i \in DOMAIN select_links |->
        [k \in DOMAIN columns |->
            [l \in Links |-> SumSeq([t \in DOMAIN threaded |-> threaded[t][i][k][l]])]]]

\* reduce_sl_od_matrix on one type: the threads' COO buffers one after the other
reduce_sl_od_matrix(threaded, select_links, columns) ==
    [i \in DOMAIN select_links |->
        [k \in DOMAIN columns |-> Concat([t \in DOMAIN threaded |-> threaded[t][i][k]])]]

\* the three reductions at the end of batched, after the parallel region
Reduce ==
    /\ ll_pc = "loading"
    /\ \A i \in DOMAIN od_thread : od_thread[i] # 0
    /\ link_loading' =
           [ty \in Types |-> reduce_link_loading(link_loading_threaded[ty], ll_args.demand[ty])]
    /\ sl_link_loading' =
           [ty \in Types |-> reduce_sl_link_loading(sl_link_loading_threaded[ty],
                                                    ll_args.select_links, ll_args.demand[ty])]
    /\ sl_od_matrix' =
           [ty \in Types |-> reduce_sl_od_matrix(sl_od_matrix_threaded[ty],
                                                 ll_args.select_links, ll_args.demand[ty])]
    /\ link_loading_threaded' = <<>>
    /\ sl_link_loading_threaded' = <<>>
    /\ sl_od_matrix_threaded' = <<>>
    /\ ll_pc' = "reduced"
    /\ UNCHANGED <<ll_args, od_thread, od_matrix_objects, membership, enumVars, batchVars, pslVars, parVars>>

\* dict(zip(keys, values)): zip stops at the shorter list, a later key replaces an earlier
DictZip(keys, values) ==
    LET n == IF Len(keys) < Len(values) THEN Len(keys) ELSE Len(values)
    IN [key \in {keys[k] : k \in 1..n} |->
           values[CHOOSE k \in 1..n : keys[k] = key /\ \A k2 \in (k + 1)..n : keys[k2] # key]]

Names(s) == [k \in DOMAIN s |-> s[k].name]

\* sl_od_matrices_structs_to_objects, first call
sl_od_matrices_structs_to_objects ==
    /\ ll_pc = "reduced"
    /\ LET f64_dicts == [i \in DOMAIN ll_args.select_links |->
                            DictZip(Names(ll_args.demand["f64"]), sl_od_matrix["f64"][i])]
           f32_dicts == [i \in DOMAIN ll_args.select_links |->
                            DictZip(Names(ll_args.demand["f32"]), sl_od_matrix["f32"][i])]
       IN od_matrix_objects' = DictZip(Names(ll_args.select_links), f64_dicts \o f32_dicts)
    /\ sl_od_matrix' = <<>>
    /\ ll_pc' = "published"
    /\ UNCHANGED <<ll_args, od_thread, link_loading_threaded, sl_link_loading_threaded,
                   sl_od_matrix_threaded, link_loading, sl_link_loading, membership,
                   enumVars, batchVars, pslVars, parVars>>

InitLL ==
    /\ par = NoPar
    /\ pc = "idle"
    /\ LocalsBlank
    /\ ObjectFresh
    /\ \E a \in LLArgs : LLInit(a)
    /\ PSLBlank
    /\ ParBlank

NextLL ==
    \/ \E t \in 1..MaxThreads, od_idx \in DOMAIN ods : LoadOD(t, od_idx)
    \/ Reduce
    \/ sl_od_matrices_structs_to_objects

SpecLL == InitLL /\ [][NextLL]_vars

(***************************************************************************)
(* RouteChoiceSetResults.compute_result: the path-size logit of one OD.    *)
(* Costs are integers and every other number is an exact fraction <<n, d>> *)
(* with d > 0 in lowest terms.  exp is the power of Base: the computation  *)
(* uses of exp only that it is positive, increasing and turns sums into    *)
(* products.  beta is a natural number, so that pow stays a fraction.      *)
(***************************************************************************)
RECURSIVE GCD(_, _)
GCD(a, b) == IF b = 0 THEN a ELSE GCD(b, a % b)

Abs(a) == IF a < 0 THEN -a ELSE a

Frac(n, d) ==
    LET g == GCD(Abs(n), Abs(d))
    IN IF d < 0 THEN <<(-n) \div g, (-d) \div g>> ELSE <<n \div g, d \div g>>

FAdd(x, y) == Frac(x[1] * y[2] + y[1] * x[2], x[2] * y[2])

FMul(x, y) == Frac(x[1] * y[1], x[2] * y[2])

FDiv(x, y) == Frac(x[1] * y[2], x[2] * y[1])

FLeq(x, y) == x[1] * y[2] <= y[1] * x[2]

RECURSIVE FSum(_)
FSum(s) == IF s = <<>> THEN <<0, 1>> ELSE FAdd(Head(s), FSum(Tail(s)))

RECURSIVE pow(_, _)
pow(x, k) == IF k = 0 THEN <<1, 1>> ELSE FMul(x, pow(x, k - 1))

exp(k) == IF k >= 0 THEN pow(<<Base, 1>>, k) ELSE pow(<<1, Base>>, -k)

\* the largest integer not above log(x), for x > 0
FloorLog(x) == CHOOSE k \in -4..4 : FLeq(exp(k), x) /\ ~FLeq(exp(k + 1), x)

\* Scale cutoff prob from [0, 1] -> [0.5, 1]
scaled_cutoff_prob(cutoff_prob) ==
    FAdd(FMul(FAdd(<<1, 1>>, FMul(<<-1, 1>>, cutoff_prob)), <<1, 2>>), <<1, 2>>)

\* inverse_binary_logit(prob, 0.0, 1.0); costs are integers, so a cost is at most
\* min + log(odds) exactly when it is at most min + the integer part of log(odds)
inverse_binary_logit(prob) ==
    IF prob = <<1, 1>> THEN INFINITY
    ELSE IF prob = <<0, 1>> THEN -INFINITY
    ELSE FloorLog(FDiv(prob, FAdd(<<1, 1>>, FMul(<<-1, 1>>, prob))))

compute_cost(route_set_, cost_view_) ==
    [i \in DOMAIN route_set_ |->
        SumSeq([k \in DOMAIN route_set_[i] |-> cost_view_[route_set_[i][k]]])]

\* min_element: the first of the least elements
MinElement(total_cost) ==
    CHOOSE i \in DOMAIN total_cost :
        /\ \A j \in DOMAIN total_cost : total_cost[i] <= total_cost[j]
        /\ \A j \in 1..(i - 1) : total_cost[j] > total_cost[i]

\* mutant: a route is kept only if it is below the cutoff cost, the least one too
compute_mask_strict(total_cost, cutoff_prob) ==
    LET cutoff_cost == total_cost[MinElement(total_cost)] + inverse_binary_logit(cutoff_prob)
        found_zero_cost == \E i \in DOMAIN total_cost : total_cost[i] = 0
    IN [found_zero_cost |-> found_zero_cost,
        route_mask |-> [i \in DOMAIN total_cost |->
                           ~found_zero_cost /\ total_cost[i] < cutoff_cost]]

\* compute_mask on a non-empty cost vector: the mask and whether a zero cost was found
compute_mask(total_cost, cutoff_prob) ==
    LET min == MinElement(total_cost)
        cutoff_cost == total_cost[min] + inverse_binary_logit(cutoff_prob)
        found_zero_cost == \E i \in DOMAIN total_cost : total_cost[i] = 0
    IN [found_zero_cost |-> found_zero_cost,
        route_mask |-> [i \in DOMAIN total_cost |->
                           IF found_zero_cost THEN FALSE
                           ELSE total_cost[i] <= cutoff_cost \/ i = min]]

\* link_union of compute_frequency: the links of the unmasked routes, before the sort
RECURSIVE LinkUnion(_, _)
LinkUnion(route_set_, route_mask) ==
    IF route_set_ = <<>> THEN <<>>
    ELSE (IF Head(route_mask) THEN Head(route_set_) ELSE <<>>)
         \o LinkUnion(Tail(route_set_), Tail(route_mask))

\* mutant: every link is counted once for each unmasked route, on it or not
compute_frequency_routes(route_set_, route_mask) ==
    [l \in Links |-> Cardinality({i \in DOMAIN route_set_ : route_mask[i]})]

\* compute_frequency: the length of the run of each link in the sorted link_union
compute_frequency(route_set_, route_mask) ==
    LET link_union == LinkUnion(route_set_, route_mask)
    IN [l \in Links |-> Cardinality({k \in DOMAIN link_union : link_union[k] = l})]

\* mutant: masked routes get an overlap as well
compute_path_overlap_all(route_set_, counts, total_cost, route_mask, cost_view_) ==
    [i \in DOMAIN route_set_ |->
        IF total_cost[i] = 0 THEN <<1, 1>>
        ELSE FDiv(FSum([k \in DOMAIN route_set_[i] |->
                           Frac(cost_view_[route_set_[i][k]],
                                IF counts[route_set_[i][k]] = 0 THEN 1
                                ELSE counts[route_set_[i][k]])]),
                  <<total_cost[i], 1>>)]

compute_path_overlap(route_set_, counts, total_cost, route_mask, cost_view_) ==
    [i \in DOMAIN route_set_ |->
        IF ~route_mask[i] THEN <<0, 1>>
        ELSE FDiv(FSum([k \in DOMAIN route_set_[i] |->
                           Frac(cost_view_[route_set_[i][k]], counts[route_set_[i][k]])]),
                  <<total_cost[i], 1>>)]

\* mutant: the inner sum runs over the masked routes too
compute_prob_all(total_cost, path_overlap_vec, route_mask, beta) ==
    [i \in DOMAIN total_cost |->
        IF ~route_mask[i] THEN <<0, 1>>
        ELSE FDiv(<<1, 1>>,
                  FSum([j \in DOMAIN total_cost |->
                           FMul(pow(FDiv(path_overlap_vec[j], path_overlap_vec[i]), beta),
                                exp(total_cost[i] - total_cost[j]))]))]

compute_prob(total_cost, path_overlap_vec, route_mask, beta) ==
    [i \in DOMAIN total_cost |->
        IF ~route_mask[i] THEN <<0, 1>>
        ELSE FDiv(<<1, 1>>,
                  FSum([j \in DOMAIN total_cost |->
                           IF ~route_mask[j] THEN <<0, 1>>
                           ELSE FMul(pow(FDiv(path_overlap_vec[j], path_overlap_vec[i]), beta),
                                     exp(total_cost[i] - total_cost[j]))]))]

\* the routes from node 0 to node 2 of the graph above
RoutesOfOD == {<<1, 3>>, <<1, 4>>, <<2, 3>>, <<2, 4>>, <<5>>}

\* the route_vec of an OD: up to MaxRoutes distinct routes, in any order
RouteVecs ==
    {rv \in UNION {[1..n -> RoutesOfOD] : n \in 0..MaxRoutes} :
        \A i, j \in DOMAIN rv : i # j => rv[i] # rv[j]}

\* the link costs explored: the graph's own, ones with free links, ones with ties
CostViews == {BaseCost, <<0, 2, 0, 2, 3>>, <<1, 1, 1, 1, 2>>, <<1, 3, 1, 1, 4>>}

PSLArgs ==
    [route_set : RouteVecs, cost_view : CostViews,
     cutoff_prob : {<<0, 1>>, <<1, 2>>, <<1, 1>>}, beta : {0, 1}]

\* the object the assignment of the OD loads into: one thread, one 64-bit column
PSLLoading ==
    [select_links : {sl \in SelectLinks : Len(sl) \in {1, 3} /\ sl[1].or_set \in {<<{1}>>, <<{3}>>}},
     demand : {dc \in DemandColumns : dc.f32 = <<>>}, threads : {1},
     prob : {[i \in DOMAIN ods |-> <<>>]}]

\* compute_result of OD index 1, path-size logit on
compute_result ==
    /\ psl_pc = "start"
    /\ IF psl_args.route_set = <<>>
       THEN \* compute_mask reads *min with min the end of an empty vector
            \E read \in {"fault", "value"} :
               /\ psl_pc' = IF read = "fault" THEN "crashed" ELSE "computed"
               /\ UNCHANGED <<cost_set, mask_set, path_overlap_set, prob_set, warned>>
       ELSE LET total_cost == compute_cost(psl_args.route_set, psl_args.cost_view)
                m == compute_mask(total_cost, scaled_cutoff_prob(psl_args.cutoff_prob))
                counts == compute_frequency(psl_args.route_set, m.route_mask)
                po == compute_path_overlap(psl_args.route_set, counts, total_cost,
                                           m.route_mask, psl_args.cost_view)
            IN /\ cost_set' = total_cost
               /\ mask_set' = m.route_mask
               /\ warned' = IF m.found_zero_cost
                            THEN warned \cup {"Zero cost route found"} ELSE warned
               /\ IF LinkUnion(psl_args.route_set, m.route_mask) = <<>>
                  THEN /\ psl_pc' = "computed"
                       /\ path_overlap_set' = po
                       /\ prob_set' = compute_prob(total_cost, po, m.route_mask, psl_args.beta)
                  ELSE \* compute_frequency reads the element past the end of link_union
                       \* before it tests for the end; whatever value comes back, the
                       \* test for the end then closes the run of equal links
                       \E past_end \in {"fault", "value"} :
                          IF past_end = "fault"
                          THEN /\ psl_pc' = "crashed"
                               /\ UNCHANGED <<path_overlap_set, prob_set>>
                          ELSE /\ psl_pc' = "computed"
                               /\ path_overlap_set' = po
                               /\ prob_set' = compute_prob(total_cost, po, m.route_mask,
                                                           psl_args.beta)
    /\ UNCHANGED <<psl_args, phase, call, bpar, raised, results, ll_results, od_done,
                   cur_od, n_searches, dataset, ret, enumVars, llVars, parVars>>

\* the probabilities as whole numbers of units of one over their common denominator
RECURSIVE CommonDenominator(_)
CommonDenominator(probs) ==
    IF probs = <<>> THEN 1
    ELSE LET rest == CommonDenominator(Tail(probs))
         IN (Head(probs)[2] * rest) \div GCD(Head(probs)[2], rest)

InUnits(probs) ==
    [i \in DOMAIN probs |-> probs[i][1] * (CommonDenominator(probs) \div probs[i][2])]

\* the eager link loading of the OD on thread 1
EagerLoad ==
    /\ psl_pc = "computed"
    /\ psl_pc' = "loaded"
    /\ od_thread' = [od_thread EXCEPT ![1] = 1]
    /\ LET rs == psl_args.route_set
           pv == InUnits(prob_set)
       IN /\ link_loading_threaded' =
                 [ty \in Types |->
                     [link_loading_threaded[ty] EXCEPT ![1] =
                         link_load_single_route_set(@, ll_args.demand[ty], 1, rs, pv)]]
          /\ \E g \in Garbage :
                LET new == [ty \in Types |->
                               sl_link_load_single_route_set(
                                   sl_link_loading_threaded[ty][1], sl_od_matrix_threaded[ty][1],
                                   ll_args.select_links, ll_args.demand[ty], 1, rs, pv, g)]
                IN /\ sl_link_loading_threaded' =
                          [ty \in Types |->
                              [sl_link_loading_threaded[ty] EXCEPT ![1] =
                                  [i \in DOMAIN new[ty] |->
                                      [k \in DOMAIN new[ty][i] |-> new[ty][i][k].ll]]]]
                   /\ sl_od_matrix_threaded' =
                          [ty \in Types |->
                              [sl_od_matrix_threaded[ty] EXCEPT ![1] =
                                  [i \in DOMAIN new[ty] |->
                                      [k \in DOMAIN new[ty][i] |-> new[ty][i][k].coo]]]]
    /\ UNCHANGED <<ll_args, ll_pc, link_loading, sl_link_loading, sl_od_matrix,
                   od_matrix_objects, membership, psl_args, cost_set, mask_set,
                   path_overlap_set, prob_set, enumVars, batchVars, parVars>>

InitPSL ==
    /\ par = NoPar
    /\ pc = "idle"
    /\ LocalsBlank
    /\ ObjectFresh
    /\ \E a \in PSLLoading : LLInit(a)
    /\ psl_args \in PSLArgs
    /\ ParBlank
    /\ psl_pc = "start"
    /\ cost_set = <<>>
    /\ mask_set = <<>>
    /\ path_overlap_set = <<>>
    /\ prob_set = <<>>

NextPSL == compute_result \/ EagerLoad

SpecPSL == InitPSL /\ [][NextPSL]_vars

(***************************************************************************)
(* The parallel region of batched: c_cores threads share the loop over the *)
(* OD indices.  Each step of a thread is one action; the history           *)
(* variables record what the thread called and which arrays it wrote.      *)
(***************************************************************************)
\* self.zones: the nodes 0 .. zones - 1 are the centroids
zones == 2

Centroids == 0..(zones - 1)

\* the OD lists of the calls followed, as external node ids
ParDemands ==
    { << <<10, 12>> >>, << <<10, 12>>, <<11, 12>> >>,
      << <<10, 12>>, <<12, 12>>, <<11, 12>> >>,
      << <<10, 11>>, <<11, 12>>, <<10, 12>> >> }

ParArgs ==
    { a \in [ods : ParDemands, cores : 1..MaxThreads,
             block_flows_through_centroids : BOOLEAN, store_results : BOOLEAN,
             path_size_logit : BOOLEAN, eager_link_loading : BOOLEAN] :
        /\ a.store_results \/ a.path_size_logit
        /\ a.eager_link_loading => a.path_size_logit }

Threads == 1..par_args.cores

\* mutant: the blocking is given self.b_nodes_view itself
ViewRowShared(thread_id) == 0

\* b_nodes_matrix[thread_id]; row 0 of views stands for self.b_nodes_view
ViewRow(thread_id) == thread_id

\* mutant: every thread is given the first row of the scratch matrices
ScratchRowFirst(thread_id) == 1

\* cost_matrix[thread_id], predecessors_matrix[thread_id], conn_matrix[thread_id],
\* _reached_first_matrix[thread_id] and the thread_id-th accumulators of ll_results
ScratchRow(thread_id) == thread_id

\* blocking_centroid_flows(action, orig, zones, graph_fs, temp_b_nodes, real_b_nodes).
\* Its code is not part of the sources at hand; it is modelled by its contract: action
\* 0 turns the links leaving every centroid but orig into self loops in temp_b_nodes,
\* action 1 copies their heads back from real_b_nodes; real_b_nodes is only read.
blocking_centroid_flows(action, orig, temp_b_nodes, real_b_nodes) ==
    [l \in Links |->
        IF a_node[l] \notin Centroids THEN temp_b_nodes[l]
        ELSE IF action = 1 \/ a_node[l] = orig THEN real_b_nodes[l]
        ELSE a_node[l]]

\* the loop-free paths of a graph view
RECURSIVE ViewPaths(_, _, _, _)
ViewPaths(view, n, dest, visited) ==
    IF n = dest THEN {<<>>}
    ELSE UNION { { <<l>> \o p : p \in ViewPaths(view, view[l], dest, visited \cup {view[l]}) }
                 : l \in {k \in Links : a_node[k] = n /\ view[k] \notin visited} }

\* the path finder on a thread's view: the shortest paths, none if unreached
view_path_find(view, origin, dest) ==
    {p \in ViewPaths(view, origin, dest, {origin}) :
        \A q \in ViewPaths(view, origin, dest, {origin}) :
            PathCost(p, BaseCost) <= PathCost(q, BaseCost)}

origin_index_of(i) == nodes_to_indices_view[par_args.ods[i][1]]

dest_index_of(i) == nodes_to_indices_view[par_args.ods[i][2]]

\* for i in prange(demand.ods.size()): thread t is handed an index not yet handed out;
\* origin_index == dest_index goes straight to the next index
ParTake(t, i) ==
    /\ t \in Threads /\ t_pc[t] = "loop"
    /\ i \in DOMAIN par_args.ods /\ i \notin taken
    /\ taken' = taken \cup {i}
    /\ iterations' = Append(iterations, <<t, i>>)
    /\ IF origin_index_of(i) = dest_index_of(i)
       THEN UNCHANGED <<t_pc, t_i>>
       ELSE /\ t_pc' = [t_pc EXCEPT ![t] = "taken"]
            /\ t_i' = [t_i EXCEPT ![t] = i]
    /\ UNCHANGED <<par_args, views, t_route_set, block_log, search_views, writes, slots,
                   enumVars, batchVars, llVars, pslVars>>

\* if self.block_flows_through_centroids: blocking_centroid_flows(0, ...)
ParBlock(t) ==
    /\ t \in Threads /\ t_pc[t] = "taken"
    /\ t_pc' = [t_pc EXCEPT ![t] = "blocked"]
    /\ IF par_args.block_flows_through_centroids
       THEN /\ views' = [views EXCEPT ![ViewRow(t)] =
                           blocking_centroid_flows(0, origin_index_of(t_i[t]), @, views[0])]
            /\ block_log' = [block_log EXCEPT ![t] = Append(@, 0)]
            /\ writes' = writes \cup {<<t, "b_nodes_matrix", ViewRow(t)>>}
       ELSE UNCHANGED <<views, block_log, writes>>
    /\ UNCHANGED <<par_args, t_i, t_route_set, taken, iterations, search_views, slots,
                   enumVars, batchVars, llVars, pslVars>>

\* the enumeration of the thread's OD on its graph view and scratch rows
ParSearch(t) ==
    /\ t \in Threads /\ t_pc[t] = "blocked"
    /\ t_pc' = [t_pc EXCEPT ![t] = "searched"]
    /\ LET view == views[ViewRow(t)]
           found == view_path_find(view, origin_index_of(t_i[t]), dest_index_of(t_i[t]))
       IN /\ search_views' = search_views \cup {[thread |-> t, i |-> t_i[t], view |-> view]}
          /\ IF found = {}
             THEN t_route_set' = [t_route_set EXCEPT ![t] = <<>>]
             ELSE \E p \in found : t_route_set' = [t_route_set EXCEPT ![t] = <<p>>]
    /\ writes' = writes \cup { <<t, a, ScratchRow(t)>> :
                                 a \in {"cost_matrix", "predecessors_matrix", "conn_matrix",
                                        "_reached_first_matrix"} }
    /\ UNCHANGED <<par_args, views, t_i, taken, iterations, block_log, slots,
                   enumVars, batchVars, llVars, pslVars>>

\* get_route_vec, route_set_to_route_vec, route_set.clear(), compute_result and the
\* eager link loading of the thread's OD
ParStore(t) ==
    /\ t \in Threads /\ t_pc[t] = "searched"
    /\ t_pc' = [t_pc EXCEPT ![t] = "stored"]
    /\ slots' = IF par_args.store_results
                THEN [slots EXCEPT ![t_i[t]] = t_route_set[t]] ELSE slots
    /\ t_route_set' = [t_route_set EXCEPT ![t] = <<>>]
    /\ writes' = writes
          \cup (IF par_args.store_results THEN {<<t, "route_vecs", t_i[t]>>} ELSE {})
          \cup (IF par_args.store_results /\ par_args.path_size_logit
                THEN { <<t, a, t_i[t]>> :
                         a \in {"cost_set", "mask_set", "path_overlap_set", "prob_set"} }
                ELSE {})
          \cup (IF par_args.eager_link_loading
                THEN { <<t, a, ScratchRow(t)>> :
                         a \in {"link_loading_threaded", "sl_link_loading_threaded",
                                "sl_od_matrix_threaded"} }
                ELSE {})
    /\ UNCHANGED <<par_args, views, t_i, taken, iterations, block_log, search_views,
                   enumVars, batchVars, llVars, pslVars>>

\* if self.block_flows_through_centroids: blocking_centroid_flows(1, ...); the end of
\* the loop body
ParUnblock(t) ==
    /\ t \in Threads /\ t_pc[t] = "stored"
    /\ t_pc' = [t_pc EXCEPT ![t] = "loop"]
    /\ t_i' = [t_i EXCEPT ![t] = 0]
    /\ IF par_args.block_flows_through_centroids
       THEN /\ views' = [views EXCEPT ![ViewRow(t)] =
                           blocking_centroid_flows(1, origin_index_of(t_i[t]), @, views[0])]
            /\ block_log' = [block_log EXCEPT ![t] = Append(@, 1)]
            /\ writes' = writes \cup {<<t, "b_nodes_matrix", ViewRow(t)>>}
       ELSE UNCHANGED <<views, block_log, writes>>
    /\ UNCHANGED <<par_args, t_route_set, taken, iterations, search_views, slots,
                   enumVars, batchVars, llVars, pslVars>>

\* the state at `with nogil, parallel(num_threads=c_cores)`
InitPar ==
    /\ par = NoPar
    /\ pc = "idle"
    /\ LocalsBlank
    /\ ObjectFresh
    /\ LLBlank
    /\ PSLBlank
    /\ par_args \in ParArgs
    /\ views = [r \in 0..par_args.cores |-> b_nodes_view]
    /\ t_pc = [t \in 1..par_args.cores |-> "loop"]
    /\ t_i = [t \in 1..par_args.cores |-> 0]
    /\ t_route_set = [t \in 1..par_args.cores |-> <<>>]
    /\ taken = {}
    /\ iterations = <<>>
    /\ block_log = [t \in 1..par_args.cores |-> <<>>]
    /\ search_views = {}
    /\ writes = {}
    /\ slots = [i \in DOMAIN par_args.ods |-> <<>>]

NextPar ==
    \/ \E t \in 1..MaxThreads, i \in DOMAIN par_args.ods : ParTake(t, i)
    \/ \E t \in 1..MaxThreads : ParBlock(t)
    \/ \E t \in 1..MaxThreads : ParSearch(t)
    \/ \E t \in 1..MaxThreads : ParStore(t)
    \/ \E t \in 1..MaxThreads : ParUnblock(t)

SpecPar == InitPar /\ [][NextPar]_vars


(***************************************************************************)
(* Two runs of the enumeration of one OD with the same arguments and the   *)
(* same seed, on one graph and one build of the path finder.               *)
(***************************************************************************)
Seeds == {0, 2, 5}

\* the first run has returned; the second is entered with the same arguments
Rerun ==
    /\ run_no = 1
    /\ pc = "done"
    /\ first_run' = route_set
    /\ run_no' = 2
    /\ pc' = "entry"
    /\ UNCHANGED <<par, route_set, removed_links, queue, next_queue, qi, depth, miss_count,
                   thread_cost, penalised_cost, next_penalised_cost, unreachable,
                   search_log, dup_log, mem, det, batchVars, llVars, pslVars, parVars>>

InitDet ==
    /\ par \in ParDomain
    /\ pc = "entry"
    /\ route_set = <<>>
    /\ removed_links = {}
    /\ queue = <<>>
    /\ next_queue = <<>>
    /\ qi = 1
    /\ depth = 0
    /\ miss_count = 0
    /\ thread_cost = BaseCost
    /\ penalised_cost = BaseCost
    /\ next_penalised_cost = BaseCost
    /\ unreachable = FALSE
    /\ search_log = <<>>
    /\ dup_log = <<>>
    /\ mem = NoMem
    /\ det \in [mode : {"low", "high"}, seed : Seeds, x : {1}]
    /\ run_no = 1
    /\ first_run = <<>>
    /\ ObjectFresh
    /\ LLBlank
    /\ PSLBlank
    /\ ParBlank

NextDet == Enter \/ BfsleDepth \/ BfsleSearch \/ LpIteration \/ Rerun

SpecDet == InitDet /\ [][NextDet]_vars

(***************************************************************************)
(* Claims on the enumeration.                                              *)
(***************************************************************************)

\* C1: at every point of bfsle and link_penalisation, no two routes of the
\* OD's route set are equal as ordered sequences of compact link ids.
C1_RoutesPairwiseDistinct ==
    \A i, j \in DOMAIN route_set : i # j => route_set[i] # route_set[j]

\* a search has returned a route that was already stored, next to other routes
C1_Witness == miss_count > 0 /\ Len(route_set) >= 2

\* C2: with max_routes > 0 the route set never holds more than max_routes
\* routes, during the enumeration and when it returns.
C2_AtMostMaxRoutes == par.max_routes > 0 => Len(route_set) <= par.max_routes

\* bfsle returned with a full route set while banned sets were still queued
C2_Witness ==
    /\ pc = "done" /\ par.bfsle
    /\ par.max_routes = 2 /\ Len(route_set) = 2
    /\ Len(queue) > 0

\* what C3 allows an enumeration to stop on
StopCondition ==
    \/ Len(route_set) >= Limit(par.max_routes)
    \/ depth >= Limit(par.max_depth)
    \/ par.bfsle /\ queue = <<>>
    \/ ~par.bfsle /\ unreachable
    \/ miss_count > par.max_misses

\* C3: with max_routes > 0 or max_depth > 0 and any max_misses, bfsle and
\* link_penalisation end after finitely many path searches, and they end only
\* with the route set at max_routes, max_depth iterations done, the queue
\* empty, the destination unreachable (link penalisation) or the miss limit
\* passed.
C3_TerminatesOnAStopCondition ==
    /\ <>(pc = "done")
    /\ [](pc = "done" => StopCondition)

\* an enumeration that ended on the miss limit alone
C3_Witness ==
    /\ pc = "done"
    /\ miss_count > par.max_misses
    /\ Len(route_set) < Limit(par.max_routes)
    /\ depth < Limit(par.max_depth)
    /\ Len(search_log) >= 3

\* C4: in bfsle a banned-link set is enqueued only if no set with the same
\* members has been seen before, so no path search runs twice with the same
\* set of banned links.
C4_NoBannedSetSearchedTwice ==
    par.bfsle => \A i, j \in DOMAIN search_log : i # j => search_log[i] # search_log[j]

\* the number of duplicates in a log of inserts
RECURSIVE Misses(_)
Misses(log) == IF log = <<>> THEN 0 ELSE (IF Head(log) THEN 1 ELSE 0) + Misses(Tail(log))

\* the number of duplicates at the end of the log with no new route between them
RECURSIVE TrailingMisses(_)
TrailingMisses(log) ==
    IF log = <<>> \/ ~log[Len(log)] THEN 0
    ELSE 1 + TrailingMisses(SubSeq(log, 1, Len(log) - 1))

\* C17 as stated: link penalisation for one OD exits early as soon as max_misses
\* consecutive path searches have each returned a route already in the route set,
\* so it never goes on to another iteration with that many behind it.
C17_ExitsAtMaxMissesConsecutive ==
    (/\ ~par.bfsle /\ par.penalty > 1 /\ par.max_misses >= 1
     /\ pc = "lp_depth"
     /\ depth < Limit(par.max_depth) /\ ~RouteSetFull(route_set, par.max_routes)) =>
        TrailingMisses(dup_log) < par.max_misses

\* C17: link penalisation for one OD counts every search that returned a route already
\* in the route set, consecutive or not, and exits as soon as that count exceeds
\* max_misses: it goes on while the count is at most max_misses and stops at the
\* search that makes it max_misses + 1.
C17_ExitsWhenMissesExceedMaxMisses ==
    (~par.bfsle /\ pc \in {"lp_depth", "done"}) =>
        /\ miss_count = Misses(dup_log)
        /\ pc = "lp_depth" => Misses(dup_log) <= par.max_misses
        /\ Misses(dup_log) > par.max_misses =>
              /\ pc = "done"
              /\ dup_log[Len(dup_log)]
              /\ Misses(dup_log) = par.max_misses + 1

\* link penalisation stopped by its second duplicate with max_misses = 1, the route
\* set and the depth still under their limits
C17_Witness ==
    /\ ~par.bfsle /\ pc = "done"
    /\ par.penalty > 1
    /\ par.max_misses = 1
    /\ Misses(dup_log) = 2
    /\ \E i, j \in DOMAIN dup_log : i < j /\ dup_log[i] /\ ~dup_log[j]
    /\ Len(route_set) < Limit(par.max_routes)
    /\ depth < Limit(par.max_depth)

\* C18: when the enumeration of one OD returns, every route vector and every
\* banned-link set it allocated is either owned by the returned route set or has been
\* freed exactly once: a route found to be a duplicate is freed at once, and
\* banned-link sets still waiting in the queue are freed.
C18_AllocationsOwnedOrFreedOnce ==
    pc = "done" =>
        \A id \in DOMAIN mem.heap :
            IF mem.heap[id].kind = "route" /\ id \in Range(mem.route_ids)
            THEN mem.heap[id].frees = 0
            ELSE mem.heap[id].frees = 1

Reachable(origin, dest) == PathsFrom(origin, dest, {origin}) # {}

\* C25: with max_routes = 1 and a destination that can be reached, bfsle and
\* link_penalisation each end with exactly one route, a path from the origin to the
\* destination that costs no more, at the costs of cost_view, than any other.
C25_SingleRouteIsShortest ==
    (pc = "done" /\ par.max_routes = 1 /\ Reachable(par.origin_index, par.dest_index)) =>
        /\ Len(route_set) = 1
        /\ route_set[1] \in PathsFrom(par.origin_index, par.dest_index, {par.origin_index})
        /\ \A q \in PathsFrom(par.origin_index, par.dest_index, {par.origin_index}) :
               PathCost(route_set[1], BaseCost) <= PathCost(q, BaseCost)

\* bfsle with a penalty has ended with one route between nodes joined by several
\* paths of different costs
C25_Witness ==
    /\ pc = "done"
    /\ par.max_routes = 1
    /\ par.bfsle
    /\ par.penalty > 1
    /\ Len(route_set) = 1
    /\ \E q \in PathsFrom(par.origin_index, par.dest_index, {par.origin_index}) :
           PathCost(route_set[1], BaseCost) < PathCost(q, BaseCost)

\* the links of vec lead from origin to dest, each starting where the one before ends
TravelOrder(vec, origin, dest) ==
    /\ vec # <<>>
    /\ a_node[vec[1]] = origin
    /\ b_nodes_view[vec[Len(vec)]] = dest
    /\ \A k \in 1..(Len(vec) - 1) : a_node[vec[k + 1]] = b_nodes_view[vec[k]]

\* C27: every route in the route set lists the links of a path from the origin to
\* the destination in travel order: the first link leaves the origin, the last
\* enters the destination, and each link starts at the node where the one before ends.
C27_RoutesInTravelOrder ==
    \A k \in 1..Len(route_set) : TravelOrder(route_set[k], par.origin_index, par.dest_index)

\* an enumeration has ended with several routes, one of more than one link
C27_Witness ==
    /\ pc = "done"
    /\ Len(route_set) >= 2
    /\ \E k \in 1..Len(route_set) : Len(route_set[k]) >= 2

\* C29: in bfsle with a penalty other than 1, a path search uses, on every link it
\* has not banned, the penalised costs of its depth; these stay as they are for as
\* long as the depth lasts, and at the end of the depth they take up the penalties
\* of the routes found during it.
C29_PenaltiesVisibleNextDepth ==
    [][(pc \in {"bfsle_depth", "bfsle_queue"} /\ lp) =>
          /\ Len(search_log') > Len(search_log) =>
                 \A l \in Links \ queue[qi] : thread_cost'[l] = penalised_cost[l]
          /\ depth' = depth => penalised_cost' = penalised_cost
          /\ depth' # depth => penalised_cost' = next_penalised_cost']_vars

\* the second depth has ended after two searches: both used the penalties of the
\* first depth, and the second found again the route the first had just found,
\* whose penalty it did not see
C29_Witness ==
    /\ pc = "bfsle_depth"
    /\ lp
    /\ depth = 2
    /\ Len(search_log) = 3
    /\ dup_log = <<FALSE, FALSE, TRUE>>
    /\ \E l \in Links \ search_log[3] : thread_cost[l] # BaseCost[l]
    /\ \E l \in Links \ search_log[3] : thread_cost[l] # penalised_cost[l]

(***************************************************************************)
(* Claims on the link loading.                                             *)
(***************************************************************************)

\* the route contains every link of at least one AND set of the query
Satisfies(route, or_set) == \E k \in DOMAIN or_set : or_set[k] \subseteq Range(route)

\* P(i,j) * d(i,c) for the routes j of OD i picked by Keep(i, j), summed over the ODs
ExpectedSum(column, Keep(_, _)) ==
    SumSeq([i \in DOMAIN ods |->
        SumSeq([j \in DOMAIN route_vecs[i] |->
            IF Keep(i, j) THEN ll_args.prob[i][j] * column.values[i] ELSE 0])])

\* C5 (as stated): for every route and every select-link query, the membership test
\* says the route satisfies the query if and only if the route contains every link of
\* at least one AND set of the query.
C5_MembershipIffSomeAndSetContained ==
    \A m \in membership :
        m.hit <=> Satisfies(route_vecs[m.od][m.j], ll_args.select_links[m.i].or_set)

\* C5 (amended): for every route of distinct links and every select-link query whose
\* AND sets are all non-empty, the membership test says the route satisfies the query
\* if and only if the route contains every link of at least one AND set of the query.
C5_MembershipIffNonEmptyAndSetContained ==
    \A m \in membership :
        LET or_set == ll_args.select_links[m.i].or_set
        IN (\A k \in DOMAIN or_set : or_set[k] # {}) =>
               (m.hit <=> Satisfies(route_vecs[m.od][m.j], or_set))

C5_Witness ==
    /\ \E m \in membership :
          /\ m.hit
          /\ \E k \in DOMAIN ll_args.select_links[m.i].or_set :
                /\ Cardinality(ll_args.select_links[m.i].or_set[k]) = 2
                /\ ll_args.select_links[m.i].or_set[k] \subseteq Range(route_vecs[m.od][m.j])
    /\ \E m \in membership :
          /\ ~m.hit
          /\ \E k \in DOMAIN ll_args.select_links[m.i].or_set :
                ll_args.select_links[m.i].or_set[k] \cap Range(route_vecs[m.od][m.j]) # {}

\* the select-link sets the membership test is exact on: no AND set is empty
AndSetsNonEmpty ==
    \A i \in DOMAIN ll_args.select_links :
        \A k \in DOMAIN ll_args.select_links[i].or_set :
            ll_args.select_links[i].or_set[k] # {}

\* C6: for every select-link query q (of non-empty AND sets), demand column c and OD i,
\* each route j of the OD that satisfies q adds P(i,j) * d(i,c), with the probability of
\* that same route j, to the select-link load of q on every link of route j, and other
\* routes add nothing; so once all ODs are loaded and reduced, the select-link load of q
\* on a link is the sum of P(i,j) * d(i,c) over the routes that satisfy q and hold the link.
C6_SelectLinkLoadUsesRouteProbability ==
    (ll_pc \in {"reduced", "published"} /\ AndSetsNonEmpty) =>
        \A ty \in Types : \A i \in DOMAIN ll_args.select_links :
            \A k \in DOMAIN ll_args.demand[ty] : \A l \in Links :
                LET Keep(od, j) ==
                        /\ l \in Range(route_vecs[od][j])
                        /\ Satisfies(route_vecs[od][j], ll_args.select_links[i].or_set)
                IN sl_link_loading[ty][i][k][l] = ExpectedSum(ll_args.demand[ty][k], Keep)

\* C7: after the reduction, for every demand column the load on each compact link is
\* the sum of P(i,j) * d(i,c) over all ODs i and their routes j that hold the link,
\* whatever the number of threads and whichever thread loaded each OD.
C7_ReducedLoadIsSumOverAllRoutes ==
    ll_pc \in {"reduced", "published"} =>
        \A ty \in Types : \A k \in DOMAIN ll_args.demand[ty] : \A l \in Links :
            LET Keep(od, j) == l \in Range(route_vecs[od][j])
            IN link_loading[ty][k][l] = ExpectedSum(ll_args.demand[ty][k], Keep)

C7_Witness ==
    /\ ll_pc = "reduced"
    /\ ll_args.threads = 2
    /\ od_thread[1] # od_thread[2]
    /\ ll_args.prob[1][1] > 0
    /\ ll_args.prob[2][1] > 0
    /\ ll_args.demand["f64"] # <<>>
    /\ link_loading["f64"][1][3] =
           ll_args.prob[1][1] * ll_args.demand["f64"][1].values[1]
           + ll_args.prob[2][1] * ll_args.demand["f64"][1].values[2]
    /\ ll_args.demand["f64"][1].values[2] > 0

\* the entries P(i,j) * d(i,c) of the routes that satisfy the query, as a set of
\* (OD, route, origin, destination, value)
ExpectedEntries(or_set, column) ==
    { <<i, j, ods[i][1], ods[i][2], ll_args.prob[i][j] * column.values[i]>> :
        <<i, j>> \in { x \in (DOMAIN ods) \X (1..2) :
                          /\ x[2] \in DOMAIN route_vecs[x[1]]
                          /\ Satisfies(route_vecs[x[1]][x[2]], or_set) } }

\* the number of times e occurs in the sequence s
Occurrences(s, e) == Cardinality({k \in DOMAIN s : s[k] = e})

\* C8: the select-link OD matrix result holds, for every query name, one sparse matrix
\* for every demand column, 64-bit and 32-bit alike, and that matrix has one entry
\* (origin, destination, P(i,j) * d(i,c)) for each route that satisfies the query.
C8_OdMatrixForEveryQueryAndColumn ==
    ll_pc = "published" =>
        \A i \in DOMAIN ll_args.select_links :
            LET q == ll_args.select_links[i]
            IN /\ q.name \in DOMAIN od_matrix_objects
               /\ \A ty \in Types : \A k \in DOMAIN ll_args.demand[ty] :
                     LET c == ll_args.demand[ty][k]
                         want == ExpectedEntries(q.or_set, c)
                     IN /\ c.name \in DOMAIN od_matrix_objects[q.name]
                        /\ Len(od_matrix_objects[q.name][c.name]) = Cardinality(want)
                        /\ \A e \in want :
                              Occurrences(od_matrix_objects[q.name][c.name],
                                          <<e[3], e[4], e[5]>>)
                              = Cardinality({x \in want : <<x[3], x[4], x[5]>>
                                                          = <<e[3], e[4], e[5]>>})

(***************************************************************************)
(* Claims on the path-size logit.                                          *)
(***************************************************************************)

\* nothing has been added to any link load, select-link load or select-link OD matrix
NothingLoaded ==
    \A ty \in Types : \A t \in DOMAIN link_loading_threaded[ty] :
        /\ \A k \in DOMAIN link_loading_threaded[ty][t] :
              link_loading_threaded[ty][t][k] = ZeroLinks
        /\ \A i \in DOMAIN sl_link_loading_threaded[ty][t] :
              \A k \in DOMAIN sl_link_loading_threaded[ty][t][i] :
                 /\ sl_link_loading_threaded[ty][t][i][k] = ZeroLinks
                 /\ sl_od_matrix_threaded[ty][t][i][k] = <<>>

\* C12: an OD whose destination cannot be reached, whose route set is therefore empty,
\* adds nothing to any link load, select-link load or select-link OD matrix and does
\* not make the batch fail, also when path-size logit is enabled.
C12_UnreachableOdHarmlessUnderPsl ==
    (psl_pc # "off" /\ psl_args.route_set = <<>>) =>
        /\ psl_pc # "crashed"
        /\ NothingLoaded

\* C13: if any route of an OD has total cost 0, every route of that OD is masked, every
\* probability of that OD is 0, the OD adds nothing to any link loading, and a warning
\* is emitted.
C13_ZeroCostMasksAndLoadsNothing ==
    (psl_pc \in {"computed", "loaded"} /\ \E i \in DOMAIN cost_set : cost_set[i] = 0) =>
        /\ \A i \in DOMAIN mask_set : ~mask_set[i]
        /\ \A i \in DOMAIN prob_set : prob_set[i] = <<0, 1>>
        /\ "Zero cost route found" \in warned
        /\ NothingLoaded

\* C14: for every OD processed with path-size logit, each route whose mask entry is
\* false has probability exactly 0 and path overlap exactly 0.
C14_MaskedRoutesHaveZeroProbAndOverlap ==
    psl_pc \in {"computed", "loaded"} =>
        \A i \in DOMAIN mask_set :
            ~mask_set[i] => (prob_set[i] = <<0, 1>> /\ path_overlap_set[i] = <<0, 1>>)

C14_Witness ==
    /\ psl_pc = "computed"
    /\ \E i, j \in DOMAIN mask_set : ~mask_set[i] /\ mask_set[j] /\ prob_set[j] = <<1, 1>>
    /\ \A i \in DOMAIN cost_set : cost_set[i] > 0

\* C15: for every OD with a non-empty route set in which no route has zero cost, the
\* minimum-cost route is unmasked and has probability greater than 0, for every
\* cutoff_prob in [0, 1].
C15_MinCostRouteUnmaskedAndPositive ==
    (/\ psl_pc \in {"computed", "loaded"}
     /\ psl_args.route_set # <<>>
     /\ \A i \in DOMAIN cost_set : cost_set[i] # 0) =>
        \A i \in DOMAIN cost_set :
            (\A j \in DOMAIN cost_set : cost_set[i] <= cost_set[j]) =>
                (mask_set[i] /\ prob_set[i][1] > 0)

C15_Witness ==
    /\ psl_pc = "computed"
    /\ psl_args.cutoff_prob = <<1, 1>>
    /\ Len(cost_set) >= 2
    /\ \A i \in DOMAIN cost_set : cost_set[i] # 0
    /\ \E i \in DOMAIN mask_set : ~mask_set[i]
    /\ \E i, j \in DOMAIN mask_set : i # j /\ cost_set[i] = cost_set[j] /\ mask_set[i]

\* C16: for every OD processed with path-size logit, the probabilities of the unmasked
\* routes sum to 1, and if every route of the OD is masked the probabilities sum to 0.
C16_ProbabilitiesSumToOne ==
    psl_pc \in {"computed", "loaded"} =>
        IF \E i \in DOMAIN mask_set : mask_set[i]
        THEN FSum([i \in DOMAIN prob_set |-> IF mask_set[i] THEN prob_set[i] ELSE <<0, 1>>])
             = <<1, 1>>
        ELSE FSum(prob_set) = <<0, 1>>

C16_Witness ==
    /\ psl_pc = "computed"
    /\ psl_args.beta = 1
    /\ \E i, j \in DOMAIN mask_set :
          /\ mask_set[i] /\ mask_set[j] /\ cost_set[i] < cost_set[j]
          /\ path_overlap_set[i] # path_overlap_set[j]
          /\ prob_set[i] # prob_set[j]
    /\ \E i \in DOMAIN mask_set : ~mask_set[i]

\* the route set of the four-node diamond: two routes of the same positive cost
\* that share no link
Diamond(a) ==
    /\ Len(a.route_set) = 2
    /\ Range(a.route_set[1]) \cap Range(a.route_set[2]) = {}
    /\ compute_cost(a.route_set, a.cost_view)[1] = compute_cost(a.route_set, a.cost_view)[2]
    /\ compute_cost(a.route_set, a.cost_view)[1] > 0

\* C28 as stated: for two routes of equal cost that share no link, path-size logit
\* with beta = 1 gives each route a path overlap of 0.5 and a probability of 0.5.
C28_DiamondOverlapHalf ==
    (psl_pc \in {"computed", "loaded"} /\ Diamond(psl_args) /\ psl_args.beta = 1) =>
        /\ path_overlap_set = << <<1, 2>>, <<1, 2>> >>
        /\ prob_set = << <<1, 2>>, <<1, 2>> >>

\* C28 as the code has it: for two routes of equal cost that share no link,
\* path-size logit with beta = 1 gives each route a path overlap of 1 and a
\* probability of 0.5.
C28_DiamondOverlapOne ==
    (psl_pc \in {"computed", "loaded"} /\ Diamond(psl_args) /\ psl_args.beta = 1) =>
        /\ path_overlap_set = << <<1, 1>>, <<1, 1>> >>
        /\ prob_set = << <<1, 2>>, <<1, 2>> >>

\* the two routes through the diamond 0 -> 1 -> 2, of cost 2 each, have been computed
C28_Witness ==
    /\ psl_pc = "computed"
    /\ psl_args.route_set = << <<1, 3>>, <<2, 4>> >>
    /\ psl_args.cost_view = <<1, 1, 1, 1, 2>>
    /\ psl_args.beta = 1
    /\ prob_set # <<>>

(***************************************************************************)
(* Claims on the parallel region.                                          *)
(***************************************************************************)

\* C19: with block_flows_through_centroids enabled, every OD that is processed blocks
\* the centroids on the thread's private graph view before its path searches and
\* unblocks them before the thread starts its next OD, so block (0) and unblock (1)
\* calls strictly alternate on each thread, starting with block, and the shared graph
\* view is never modified.
C19_BlockUnblockAlternate ==
    par_args.block_flows_through_centroids =>
        /\ views[0] = b_nodes_view
        /\ \A t \in Threads :
              /\ \A k \in DOMAIN block_log[t] : block_log[t][k] = (k + 1) % 2
              /\ t_pc[t] \in {"loop", "taken"} =>
                    (Len(block_log[t]) % 2 = 0 /\ views[t] = b_nodes_view)
              /\ t_pc[t] \in {"blocked", "searched", "stored"} => Len(block_log[t]) % 2 = 1
              /\ Len(block_log[t]) \div 2 =
                    Cardinality({k \in DOMAIN iterations :
                                    /\ iterations[k][1] = t
                                    /\ iterations[k][2] # t_i[t]
                                    /\ origin_index_of(iterations[k][2])
                                       # dest_index_of(iterations[k][2])})
        /\ \A sv \in search_views :
              sv.view = blocking_centroid_flows(0, origin_index_of(sv.i), b_nodes_view,
                                                b_nodes_view)

\* a thread of two in its second blocked OD after an OD with equal ends was skipped,
\* a search having run on a view that differs from the shared one
C19_Witness ==
    /\ par_args.block_flows_through_centroids
    /\ par_args.cores = 2
    /\ \E t \in Threads : block_log[t] = <<0, 1, 0>>
    /\ \E k \in DOMAIN iterations :
          origin_index_of(iterations[k][2]) = dest_index_of(iterations[k][2])
    /\ \E sv \in search_views : sv.view # b_nodes_view

\* C20: within one batch every OD index is processed exactly once and by exactly one
\* thread, and that thread writes only the result slot of that OD and its own
\* thread-indexed scratch and accumulator buffers, so no two threads ever write the
\* same location.
C20_EachOdOnceAndWritesDisjoint ==
    /\ \A k, m \in DOMAIN iterations : k # m => iterations[k][2] # iterations[m][2]
    /\ {iterations[k][2] : k \in DOMAIN iterations} = taken
    /\ ~ENABLED NextPar => {iterations[k][2] : k \in DOMAIN iterations} = DOMAIN par_args.ods
    /\ \A w \in writes :
          IF w[2] \in {"route_vecs", "cost_set", "mask_set", "path_overlap_set", "prob_set"}
          THEN \E k \in DOMAIN iterations : iterations[k] = <<w[1], w[3]>>
          ELSE w[3] = w[1]
    /\ \A w1, w2 \in writes : (w1[2] = w2[2] /\ w1[3] = w2[3]) => w1[1] = w2[1]
    /\ \A i \in DOMAIN slots : slots[i] # <<>> => i \in taken

\* three ODs shared out over two threads, each having stored a route in a slot and
\* written its scratch rows and accumulators
C20_Witness ==
    /\ par_args.cores = 2
    /\ taken = {1, 2, 3}
    /\ \A t \in Threads : t_pc[t] = "loop"
    /\ \E i, j \in DOMAIN slots :
          /\ slots[i] # <<>> /\ slots[j] # <<>>
          /\ <<1, "route_vecs", i>> \in writes
          /\ <<2, "route_vecs", j>> \in writes
    /\ <<1, "link_loading_threaded", 1>> \in writes
    /\ <<2, "cost_matrix", 2>> \in writes

(***************************************************************************)
(* Claims on batched.                                                      *)
(***************************************************************************)

\* C9: link penalisation (bfsle false) with a penalty factor of at most 1.0 is
\* rejected at validation, so no call runs the parallel region with such arguments.
C9_LpPenaltyAtMostOneRejected ==
    phase = "running" => (bpar.bfsle \/ bpar.penalty > 1)

\* the argument errors the claim lists
InvalidArgs(p) ==
    \/ p.max_routes = 0 /\ p.max_depth = 0
    \/ p.max_routes < 0
    \/ p.max_depth < 0
    \/ p.path_size_logit /\ p.beta < 0
    \/ p.path_size_logit /\ (p.cutoff_prob < 0 \/ p.cutoff_prob > 1)
    \/ \E k \in DOMAIN p.demand :
          \/ nodes_to_indices_view[p.demand[k][1]] = -1
          \/ nodes_to_indices_view[p.demand[k][2]] = -1

\* C10: a batched call with invalid arguments (both limits zero, a negative limit,
\* beta < 0 or cutoff outside [0, 1] under path-size logit, an origin or destination
\* absent from the compact graph) raises before any path search, and leaves the
\* results and link loadings of an earlier call as they were.
C10_InvalidArgsRaiseBeforeSearch ==
    [][(phase = "validating" /\ InvalidArgs(bpar)) =>
          /\ raised' # "none"
          /\ phase' = "idle"
          /\ pc' = "idle"
          /\ results' = results
          /\ ll_results' = ll_results
          /\ search_log' = search_log
          /\ n_searches' = n_searches]_vars

C10_Witness ==
    /\ call = 2
    /\ phase = "idle"
    /\ raised = "ValueError: must be non-negative"
    /\ results.call = 1
    /\ ll_results.call = 1
    /\ \E k \in DOMAIN results.route_vecs : results.route_vecs[k] # <<>>

\* the OD indices of the call in progress that are not skipped for equal indices
Enumerated(p) ==
    {i \in DOMAIN p.demand :
        nodes_to_indices_view[p.demand[i][1]] # nodes_to_indices_view[p.demand[i][2]]}

\* C22: a batched call with store_results = False, path_size_logit = True and
\* eager_link_loading = True returns without an error, leaves no route set in the
\* results, and the reduced link loads hold the contribution of every OD enumerated.
C22_NoStoreEagerCompletes ==
    [][(/\ phase = "running"
        /\ phase' = "idle"
        /\ ~bpar.store_results
        /\ bpar.path_size_logit
        /\ bpar.eager_link_loading) =>
          /\ raised' = "none"
          /\ \A i \in DOMAIN results'.route_vecs : results'.route_vecs[i] = <<>>
          /\ ll_results'.link_loading = <<Enumerated(bpar)>>]_vars

\* C23: when a batched call that was given a path in where returns, the route sets
\* of its ODs have been written to the dataset at that path, and no table of them
\* is left in memory.
C23_WhereWritesDataset ==
    [][(/\ phase = "running"
        /\ phase' = "idle"
        /\ bpar.where # "None"
        /\ raised' = "none") =>
          /\ \E k \in DOMAIN dataset' : dataset'[k] = results.route_vecs
          /\ results'.table = <<>>]_vars

\* a batched call has produced what the accessor returns: the table of the route
\* sets, or the reduced link loads
Populated(fn) ==
    IF fn = "get_results" THEN results.table # <<>> ELSE ll_results.link_loading # <<>>

\* C24: a call of get_results, get_link_loading, get_sl_link_loading or
\* get_sl_od_matrices made when no batched call has produced what it returns
\* raises an error; it returns neither a table nor objects, empty or not.
C24_AccessorsRaiseUntilPopulated ==
    [][\A fn \in Accessors :
          (phase = "idle" /\ ret' # ret /\ ret'.fn = fn /\ ~Populated(fn)) =>
              ret'.out \notin {"table", "objects", "empty dict"}]_vars

\* C30: every OD that batched has loaded eagerly was loaded with a probability
\* vector that has one entry per route of the OD; none was loaded with the null
\* vector, whatever accepted combination of path_size_logit, store_results and
\* eager_link_loading the call was made with.
C30_EagerLoadingHasProbabilities ==
    \A e \in ll_results.loaded : e.probs = e.routes

\* C26: an OD whose origin and destination have the same compact index is passed
\* over in one step that searches no path, stores no route, loads nothing, raises
\* nothing and warns of nothing; its route set is empty and it is in no loading
\* for the whole of the call.
C26_EqualIndicesSkippedSilently ==
    /\ [](phase = "running" =>
             \A i \in DOMAIN bpar.demand \ Enumerated(bpar) :
                /\ results.route_vecs[i] = <<>>
                /\ i \notin {e.od : e \in ll_results.loaded}
                /\ cur_od # i)
    /\ [][\A i \in DOMAIN bpar.demand \ Enumerated(bpar) :
             (phase = "running" /\ i \notin od_done /\ i \in od_done') =>
                 /\ results' = results
                 /\ ll_results' = ll_results
                 /\ search_log' = search_log
                 /\ n_searches' = n_searches
                 /\ pc' = "idle"
                 /\ phase' = "running"
                 /\ raised' = "none"
                 /\ warned' = {}]_vars

\* a call with eager link loading has passed over an OD with equal indices
C26_Witness ==
    /\ phase = "running"
    /\ bpar.eager_link_loading
    /\ bpar.path_size_logit
    /\ \E i \in od_done : i \notin Enumerated(bpar)

\* C11: when the input holds the same OD pair more than once, the duplicates are
\* collapsed, so that each distinct OD pair is processed once and gets one route set,
\* and a warning is emitted.
C11_DuplicateOdsCollapsedWithWarning ==
    (phase = "running" /\ \E i, j \in DOMAIN bpar.demand : i # j /\ bpar.demand[i] = bpar.demand[j]) =>
        /\ "Duplicate OD pairs found" \in warned
        /\ \A i, j \in (od_done \cup {cur_od}) \ {0} : bpar.demand[i] = bpar.demand[j] => i = j
        /\ \A i, j \in DOMAIN results.route_vecs : bpar.demand[i] = bpar.demand[j] => i = j

====
